---- MODULE Spec2Model ----
(***************************************************************************)
(* Rule evaluation of the html_scraper crate.                              *)
(*                                                                         *)
(* Three sequential evaluators walk a rule tree against a parsed document: *)
(*   visitor : ScraperVisitor::visit_element, driven by HtmlScraper::scrape*)
(*             (visitor.rs, html_scraper.rs), flat HashMap<String,String>  *)
(*   folder  : Folder for HtmlScraper (folder.rs), serde_json::Value       *)
(*   old     : HtmlScraper::scrape_html over Extract (old.rs), Result<..>  *)
(*                                                                         *)
(* A string is a sequence of one-character strings.  An Option is a        *)
(* sequence of length at most one: None == <<>>, Some(x) == <<x>>.         *)
(***************************************************************************)
EXTENDS Integers, Sequences, FiniteSets, TLC

VARIABLES doc, rules, variant, cleaner, idx, result, status, error, first,
          todo, parts, config, builtin, files, toml, input, output

vars == <<doc, rules, variant, cleaner, idx, result, status, error, first,
         todo, parts, config, builtin, files, toml, input, output>>

\* what no call changes: the rules of T::get_config(), the file system, and
\* whether the build has the feature toml_config
env == <<builtin, files, toml>>

None == << >>
Some(x) == <<x>>

----------------------------------------------------------------------------
(* Bounds of the model.                                                    *)

\* elements below the document root
MaxNodes == 3
\* rules in a top-level rule list
MaxRules == 2
\* characters of a text handed to a cleaner directly
MaxText == 5

----------------------------------------------------------------------------
(* Strings: str::trim, str::split_whitespace, str::lines, [String]::join.  *)

SP == " "
NL == "\n"

CR == "\r"
TAB == "\t"

\* char::is_whitespace over the characters that occur in the model's texts
IsWs(c) == c \in {SP, NL, CR, TAB}

RECURSIVE TrimStart(_)
TrimStart(s) ==
    IF s = << >> THEN << >>
    ELSE IF IsWs(Head(s)) THEN TrimStart(Tail(s)) ELSE s

RECURSIVE TrimEnd(_)
TrimEnd(s) ==
    IF s = << >> THEN << >>
    ELSE IF IsWs(s[Len(s)]) THEN TrimEnd(SubSeq(s, 1, Len(s) - 1)) ELSE s

\* str::trim
Trim(s) == TrimEnd(TrimStart(s))

\* slice::join: the strings of ss, sep between neighbours
RECURSIVE Join(_, _)
Join(ss, sep) ==
    IF ss = << >> THEN << >>
    ELSE IF Len(ss) = 1 THEN ss[1]
    ELSE ss[1] \o sep \o Join(Tail(ss), sep)

\* the maximal whitespace-free prefix of s
RECURSIVE TakeWord(_)
TakeWord(s) ==
    IF s = << >> \/ IsWs(Head(s)) THEN << >>
    ELSE <<Head(s)>> \o TakeWord(Tail(s))

\* str::split_whitespace: the maximal whitespace-free substrings, in order
RECURSIVE SplitWhitespace(_)
SplitWhitespace(s) ==
    LET t == TrimStart(s) IN
    IF t = << >> THEN << >>
    ELSE LET w == TakeWord(t) IN
         <<w>> \o SplitWhitespace(SubSeq(t, Len(w) + 1, Len(t)))

RECURSIVE TakeLine(_)
TakeLine(s) ==
    IF s = << >> \/ Head(s) = NL THEN << >>
    ELSE <<Head(s)>> \o TakeLine(Tail(s))

\* a line without the carriage return that stood before its line feed
StripCr(l) ==
    IF l # << >> /\ l[Len(l)] = CR THEN SubSeq(l, 1, Len(l) - 1) ELSE l

\* str::lines: split at line feeds, a carriage return before the line feed
\* belonging to the line ending; a final line feed opens no further line
RECURSIVE Lines(_)
Lines(s) ==
    IF s = << >> THEN << >>
    ELSE LET l == TakeLine(s) IN
         IF Len(l) = Len(s) THEN <<l>>
         ELSE <<StripCr(l)>> \o Lines(SubSeq(s, Len(l) + 2, Len(s)))

RECURSIVE MapTrimStart(_)
\* a map that trims the lines at their start only
MapTrimStart(ss) ==
    IF ss = << >> THEN << >> ELSE <<TrimStart(Head(ss))>> \o MapTrimStart(Tail(ss))

RECURSIVE MapTrim(_)
MapTrim(ss) == IF ss = << >> THEN << >> ELSE <<Trim(Head(ss))>> \o MapTrim(Tail(ss))

\* a filter that drops no line
FilterNothing(ss) == ss

RECURSIVE FilterNonEmpty(_)
FilterNonEmpty(ss) ==
    IF ss = << >> THEN << >>
    ELSE IF Head(ss) = << >> THEN FilterNonEmpty(Tail(ss))
    ELSE <<Head(ss)>> \o FilterNonEmpty(Tail(ss))

----------------------------------------------------------------------------
(* Text cleaners (cleaner.rs).                                             *)

\* DefaultCleaner::clean: lines, trimmed, the empty ones dropped, joined by " "
DefaultClean(text) == Join(FilterNonEmpty(MapTrim(Lines(text))), <<SP>>)

\* a caller-supplied TextCleaner that leaves a visible mark on what it cleans
MarkClean(text) == text \o <<"!">>

\* Option<&dyn TextCleaner> as configured by HtmlScraperBuilder::with_cleaner
Cleaners == {"none", "default", "mark"}

\* TextCleaner::clean, dispatched on the implementation
Clean(cl, text) == IF cl = "default" THEN DefaultClean(text) ELSE MarkClean(text)

\* a visit_text that applies DefaultCleaner whatever was configured
VisitTextAlways(text, cl) == Clean("default", text)

\* ScraperVisitor::visit_text
VisitText(text, cl) == IF cl # "none" THEN Clean(cl, text) ELSE text

----------------------------------------------------------------------------
(* Documents: what Html::parse_document hands to the evaluators.  Elements *)
(* are numbered 1..n in document order below the root element 0; every     *)
(* element holds its own text node first and its child elements after it.  *)

Classes == {"p", "q"}
Templates == {"tidy", "padded"}

\* the text node of the i-th element under a content template
TextOf(tpl, i) ==
    LET k == i % 3 IN
    IF tpl = "tidy" THEN
        (IF k = 1 THEN <<"a">> ELSE IF k = 2 THEN <<"b">> ELSE <<"a", NL, "b">>)
    ELSE
        (IF k = 1 THEN <<SP, "a", NL>> ELSE IF k = 2 THEN <<"b", SP, SP, "a">>
         ELSE <<SP, NL>>)

\* the value of attribute h of the i-th element, None when it has none
AttrOf(tpl, i) ==
    LET k == i % 3 IN
    IF tpl = "tidy" THEN
        (IF k = 1 THEN Some(<<"v">>) ELSE IF k = 2 THEN None ELSE Some(<<"w">>))
    ELSE
        (IF k = 1 THEN Some(<<SP, "v">>) ELSE IF k = 2 THEN None ELSE Some(<< >>))

RECURSIVE AncOrSelf(_, _)
\* n and its ancestors up to the root 0, under the parent map par
AncOrSelf(par, n) == IF n = 0 THEN {0} ELSE {n} \cup AncOrSelf(par, par[n])

\* parent maps that number the elements in document order
ParentMaps(n) ==
    {par \in [1..n -> 0..n] :
        \A i \in 1..n : /\ par[i] < i
                        /\ i > 1 => par[i] \in AncOrSelf(par, i - 1)}

\* the documents of exactly n elements
DocsOf(n) ==
    {[n |-> n, parent |-> par, cls |-> c,
      attr |-> [i \in 1..n |-> AttrOf(tpl, i)],
      text |-> [i \in 1..n |-> TextOf(tpl, i)]] :
        par \in ParentMaps(n), c \in [1..n -> Classes], tpl \in Templates}

\* the documents of at most n elements
DocsUpTo(n) == UNION {DocsOf(k) : k \in 0..n}

\* Html::root_element
Root == 0

\* the elements of s in ascending order, i.e. document order
RECURSIVE Ascending(_)
Ascending(s) ==
    IF s = {} THEN << >>
    ELSE LET m == CHOOSE x \in s : \A y \in s : x <= y
         IN <<m>> \o Ascending(s \ {m})

\* the proper descendants of element el
Descendants(d, el) ==
    {m \in 1..d.n : m # el /\ el \in AncOrSelf(d.parent, m)}

\* Selector::parse succeeds on class selectors and fails on anything else
ValidSelector(sel) == sel \in Classes

\* a select that searches the whole document, wherever it is called from
SelectAnywhere(d, el, sel) ==
    Ascending({m \in 1..d.n : d.cls[m] = sel})

\* ElementRef::select: the proper descendants of el that match, in document order
Select(d, el, sel) ==
    Ascending({m \in Descendants(d, el) : d.cls[m] = sel})

\* Html::select on Html::parse_fragment(&element.html()): the fragment holds
\* the element itself, so the element is a candidate as well
SelectFragment(d, el, sel) ==
    Ascending({m \in (Descendants(d, el) \cup ({el} \ {Root})) : d.cls[m] = sel})

RECURSIVE ElemTextFrom(_, _, _)
\* the text nodes of el and, after them, of the elements of kids in turn
ElemTextFrom(d, own, kids) ==
    IF kids = << >> THEN own
    ELSE ElemTextFrom(d,
            own \o ElemTextFrom(d, d.text[Head(kids)],
                       Ascending({m \in 1..d.n : d.parent[m] = Head(kids)})),
            Tail(kids))

\* element.text().collect::<String>(): all descendant text nodes, in order
ElemText(d, el) ==
    ElemTextFrom(d, d.text[el], Ascending({m \in 1..d.n : d.parent[m] = el}))

\* attr(attr).unwrap_or(attr): the attribute's name where the source has ""
AttrOrName(d, el, attr) ==
    IF attr = "h" /\ d.attr[el] # None THEN d.attr[el][1] ELSE <<attr>>

\* element.value().attr(attr).unwrap_or("")
AttrOr(d, el, attr) ==
    IF attr = "h" /\ d.attr[el] # None THEN d.attr[el][1] ELSE << >>

----------------------------------------------------------------------------
(* Rules.  ScrapeRule (scraper_config.rs, folder.rs) and Extract (old.rs)  *)
(* share one shape: type, selector, name, sub_rules, attribute.  A Text    *)
(* rule carries neither sub_rules nor attribute.  ScrapeRule of            *)
(* scraper_config.rs always has a name; the other two make it optional.    *)

Names == {"x", "y"}

OneRule(sel, name, sub, attr) ==
    [type |-> "One", selector |-> sel, name |-> name, sub_rules |-> sub,
     attribute |-> attr]
AllRule(sel, name, sub, attr) ==
    [type |-> "All", selector |-> sel, name |-> name, sub_rules |-> sub,
     attribute |-> attr]
TextRule(sel, name) ==
    [type |-> "Text", selector |-> sel, name |-> name, sub_rules |-> None,
     attribute |-> None]

----------------------------------------------------------------------------
(* Maps: HashMap / serde_json::Map as functions from keys to values.       *)

EmptyMap == << >>

\* insert: a later value for a key replaces the earlier one
Insert(m, k, v) == [x \in DOMAIN m \cup {k} |-> IF x = k THEN v ELSE m[x]]

\* an extend that leaves the keys m already has as they are
ExtendKeepFirst(m, m2) ==
    [x \in DOMAIN m \cup DOMAIN m2 |-> IF x \in DOMAIN m THEN m[x] ELSE m2[x]]

\* Extend::extend: insert every entry of m2 into m
Extend(m, m2) ==
    [x \in DOMAIN m \cup DOMAIN m2 |-> IF x \in DOMAIN m2 THEN m2[x] ELSE m[x]]

----------------------------------------------------------------------------
(* serde_json::to_string of the two types the visitor serialises.          *)

RECURSIVE JsonEscape(_)
\* the escapes serde_json writes inside a string literal
JsonEscape(s) ==
    IF s = << >> THEN << >>
    ELSE (IF Head(s) = "\"" THEN <<"\\", "\"">>
          ELSE IF Head(s) = "\\" THEN <<"\\", "\\">>
          ELSE IF Head(s) = NL THEN <<"\\", "n">>
          ELSE <<Head(s)>>) \o JsonEscape(Tail(s))

JsonString(s) == <<"\"">> \o JsonEscape(s) \o <<"\"">>

RECURSIVE JsonStrings(_)
JsonStrings(ss) ==
    IF ss = << >> THEN << >> ELSE <<JsonString(Head(ss))>> \o JsonStrings(Tail(ss))

\* to_string(&Vec<String>)
JsonArray(ss) == <<"[">> \o Join(JsonStrings(ss), <<",">>) \o <<"]">>

\* rule names in alphabetical order
NameSeq == <<"x", "y">>
Rank(k) == CHOOSE i \in 1..Len(NameSeq) : NameSeq[i] = k

\* the keys of a HashMap in the order its iterator hands them out; the order
\* depends on the map's RandomState, so it is an input: seed
RECURSIVE KeyOrder(_, _)
KeyOrder(keys, seed) ==
    IF keys = {} THEN << >>
    ELSE LET k == IF seed = "asc"
                  THEN CHOOSE x \in keys : \A y \in keys : Rank(x) <= Rank(y)
                  ELSE CHOOSE x \in keys : \A y \in keys : Rank(x) >= Rank(y)
         IN <<k>> \o KeyOrder(keys \ {k}, seed)

Seeds == {"asc", "desc"}

RECURSIVE JsonMembers(_, _)
JsonMembers(m, ks) ==
    IF ks = << >> THEN << >>
    ELSE <<JsonString(<<Head(ks)>>) \o <<":">> \o JsonString(m[Head(ks)])>>
         \o JsonMembers(m, Tail(ks))

\* to_string(&HashMap<String, String>)
JsonObject(m, seed) ==
    <<"{">> \o Join(JsonMembers(m, KeyOrder(DOMAIN m, seed)), <<",">>) \o <<"}">>

----------------------------------------------------------------------------
(* visitor.rs: ScraperVisitor::visit_element.  A call returns the map it    *)
(* built, or panics where Selector::parse(..).unwrap() meets a bad         *)
(* selector.                                                               *)

Panicked == [panic |-> TRUE, map |-> EmptyMap]
Returned(m) == [panic |-> FALSE, map |-> m]

RECURSIVE VisitElement(_, _, _, _, _)
RECURSIVE VisitSubRules(_, _, _, _, _, _)
RECURSIVE VisitAllValues(_, _, _, _, _, _)

\* for sub_rule in sub_rules { acc.extend(self.visit_element(el, sub_rule, cleaner)) }
VisitSubRules(d, el, subs, cl, seed, acc) ==
    IF subs = << >> THEN Returned(acc)
    ELSE LET r == VisitElement(d, el, Head(subs), cl, seed) IN
         IF r.panic THEN Panicked
         ELSE VisitSubRules(d, el, Tail(subs), cl, seed, Extend(acc, r.map))

\* the closure of the All arm, on one selected element
VisitAllValue(d, m, rule, cl, seed) ==
    IF rule.sub_rules # None THEN
        LET r == VisitSubRules(d, m, rule.sub_rules[1], cl, seed, EmptyMap) IN
        IF r.panic THEN Panicked ELSE Returned(JsonObject(r.map, seed))
    ELSE IF rule.attribute # None THEN
        Returned(VisitText(AttrOr(d, m, rule.attribute[1]), cl))
    ELSE Returned(VisitText(ElemText(d, m), cl))

\* selected_elements.iter().map(closure).collect()
VisitAllValues(d, ms, rule, cl, seed, acc) ==
    IF ms = << >> THEN Returned(acc)
    ELSE LET r == VisitAllValue(d, Head(ms), rule, cl, seed) IN
         IF r.panic THEN Panicked
         ELSE VisitAllValues(d, Tail(ms), rule, cl, seed, Append(acc, r.map))

RECURSIVE ElemTexts(_, _)
\* .map(|el| el.text().collect::<String>()).collect::<Vec<String>>()
ElemTexts(d, ms) ==
    IF ms = << >> THEN << >> ELSE <<ElemText(d, Head(ms))>> \o ElemTexts(d, Tail(ms))

\* the One arm with the sub-rules' map serialised under the rule's own name
VisitOneNested(d, el, rule, cl, seed) ==
    LET ms == Select(d, el, rule.selector) IN
    IF ms = << >> THEN Returned(EmptyMap)
    ELSE IF rule.sub_rules # None THEN
        LET r == VisitSubRules(d, ms[1], rule.sub_rules[1], cl, seed, EmptyMap) IN
        IF r.panic THEN Panicked
        ELSE Returned(Insert(EmptyMap, rule.name[1], JsonObject(r.map, seed)))
    ELSE IF rule.attribute # None THEN
        Returned(Insert(EmptyMap, rule.name[1],
                        VisitText(AttrOr(d, ms[1], rule.attribute[1]), cl)))
    ELSE Returned(Insert(EmptyMap, rule.name[1], VisitText(ElemText(d, ms[1]), cl)))

VisitOne(d, el, rule, cl, seed) ==
    LET ms == Select(d, el, rule.selector) IN
    IF ms = << >> THEN Returned(EmptyMap)
    ELSE IF rule.sub_rules # None THEN
        VisitSubRules(d, ms[1], rule.sub_rules[1], cl, seed, EmptyMap)
    ELSE IF rule.attribute # None THEN
        Returned(Insert(EmptyMap, rule.name[1],
                        VisitText(AttrOr(d, ms[1], rule.attribute[1]), cl)))
    ELSE Returned(Insert(EmptyMap, rule.name[1], VisitText(ElemText(d, ms[1]), cl)))

\* the All arm with the serialised list sent through visit_text
VisitAllCleanedList(d, el, rule, cl, seed) ==
    LET vs == VisitAllValues(d, Select(d, el, rule.selector), rule, cl, seed, << >>) IN
    IF vs.panic THEN Panicked
    ELSE Returned(Insert(EmptyMap, rule.name[1], VisitText(JsonArray(vs.map), cl)))

VisitAll(d, el, rule, cl, seed) ==
    LET vs == VisitAllValues(d, Select(d, el, rule.selector), rule, cl, seed, << >>) IN
    IF vs.panic THEN Panicked
    ELSE Returned(Insert(EmptyMap, rule.name[1], JsonArray(vs.map)))

VisitTextRule(d, el, rule, cl) ==
    Returned(Insert(EmptyMap, rule.name[1],
                    VisitText(Join(ElemTexts(d, Select(d, el, rule.selector)), <<SP>>), cl)))

VisitElement(d, el, rule, cl, seed) ==
    IF ~ValidSelector(rule.selector) THEN Panicked
    ELSE IF rule.type = "One" THEN VisitOne(d, el, rule, cl, seed)
    ELSE IF rule.type = "All" THEN VisitAll(d, el, rule, cl, seed)
    ELSE VisitTextRule(d, el, rule, cl)

----------------------------------------------------------------------------
(* serde_json::Value, the result type of folder.rs and old.rs.             *)

Null == [t |-> "null"]
String(s) == [t |-> "str", s |-> s]
Array(a) == [t |-> "arr", a |-> a]
Object(o) == [t |-> "obj", o |-> o]

\* what a fold yields where Selector::parse(..).unwrap() meets a bad selector
Panic == [t |-> "panic"]

----------------------------------------------------------------------------
(* folder.rs: impl Folder for HtmlScraper.                                 *)

RECURSIVE FoldRule(_, _, _)
RECURSIVE FoldSubRules(_, _, _, _)
RECURSIVE FoldAllValues(_, _, _, _)

\* the loop of the sub-rules with a repeated name keeping its first value
FoldSubRulesKeepFirst(d, el, subs, acc) ==
    IF subs = << >> THEN Object(acc)
    ELSE LET v == FoldRule(d, Head(subs), el) IN
         IF v = Panic THEN Panic
         ELSE FoldSubRules(d, el, Tail(subs),
                  IF Head(subs).name # None /\ Head(subs).name[1] \notin DOMAIN acc
                  THEN Insert(acc, Head(subs).name[1], v)
                  ELSE acc)

\* for sub_rule in sub_rules { ..fold_rule..; if let Some(name) .. insert }
FoldSubRules(d, el, subs, acc) ==
    IF subs = << >> THEN Object(acc)
    ELSE LET v == FoldRule(d, Head(subs), el) IN
         IF v = Panic THEN Panic
         ELSE FoldSubRules(d, el, Tail(subs),
                  IF Head(subs).name # None THEN Insert(acc, Head(subs).name[1], v)
                  ELSE acc)

\* the per-element extraction with the attribute tried before the sub-rules
FoldElementAttributeFirst(d, m, sub_rules, attribute) ==
    IF attribute # None THEN String(AttrOr(d, m, attribute[1]))
    ELSE IF sub_rules # None THEN FoldSubRules(d, m, sub_rules[1], EmptyMap)
    ELSE String(Trim(ElemText(d, m)))

\* the per-element extraction of fold_one and of the closure of fold_all
FoldElement(d, m, sub_rules, attribute) ==
    IF sub_rules # None THEN FoldSubRules(d, m, sub_rules[1], EmptyMap)
    ELSE IF attribute # None THEN String(AttrOr(d, m, attribute[1]))
    ELSE String(Trim(ElemText(d, m)))

\* fold_one with an empty string where the source has Value::Null
FoldOneEmptyString(d, selector, sub_rules, attribute, el) ==
    IF ~ValidSelector(selector) THEN Panic
    ELSE LET ms == Select(d, el, selector) IN
         IF ms # << >> THEN FoldElement(d, ms[1], sub_rules, attribute)
         ELSE String(<< >>)

FoldOne(d, selector, sub_rules, attribute, el) ==
    IF ~ValidSelector(selector) THEN Panic
    ELSE LET ms == Select(d, el, selector) IN
         IF ms # << >> THEN FoldElement(d, ms[1], sub_rules, attribute)
         ELSE Null

\* the closure's values collected back to front
FoldAllValuesReversed(d, ms, rule, acc) ==
    IF ms = << >> THEN Array(acc)
    ELSE LET v == FoldElement(d, Head(ms), rule.sub_rules, rule.attribute) IN
         IF v = Panic THEN Panic
         ELSE FoldAllValues(d, Tail(ms), rule, <<v>> \o acc)

FoldAllValues(d, ms, rule, acc) ==
    IF ms = << >> THEN Array(acc)
    ELSE LET v == FoldElement(d, Head(ms), rule.sub_rules, rule.attribute) IN
         IF v = Panic THEN Panic
         ELSE FoldAllValues(d, Tail(ms), rule, Append(acc, v))

\* fold_all that answers Null when nothing is selected
FoldAllNullWhenEmpty(d, rule, el) ==
    IF ~ValidSelector(rule.selector) THEN Panic
    ELSE IF Select(d, el, rule.selector) = << >> THEN Null
    ELSE FoldAllValues(d, Select(d, el, rule.selector), rule, << >>)

FoldAll(d, rule, el) ==
    IF ~ValidSelector(rule.selector) THEN Panic
    ELSE FoldAllValues(d, Select(d, el, rule.selector), rule, << >>)

FoldText(d, selector, el) ==
    IF ~ValidSelector(selector) THEN Panic
    ELSE String(Join(SplitWhitespace(Join(ElemTexts(d, Select(d, el, selector)),
                                          <<SP>>)),
                     <<SP>>))

FoldRule(d, rule, el) ==
    IF rule.type = "One" THEN
        FoldOne(d, rule.selector, rule.sub_rules, rule.attribute, el)
    ELSE IF rule.type = "All" THEN FoldAll(d, rule, el)
    ELSE FoldText(d, rule.selector, el)

----------------------------------------------------------------------------
(* old.rs: HtmlScraper::extract and its three helpers.  A call returns     *)
(* Ok with the map after its insert, or Err(ScraperError).                 *)

InvalidSelector(loc) == [kind |-> "InvalidSelector", locator |-> loc]
ElementNotFound(loc) == [kind |-> "ElementNotFound", locator |-> loc]

Ok(m) == [ok |-> TRUE, map |-> m]
Err(e) == [ok |-> FALSE, err |-> e]

\* a key that is the locator whatever the name
KeyOfLocator(name, locator) == locator

\* name.unwrap_or_else(|| locator.to_string())
KeyOf(name, locator) == IF name # None THEN name[1] ELSE locator

RECURSIVE Extract(_, _, _, _)
RECURSIVE ExtractSubEntities(_, _, _, _)
RECURSIVE ExtractAllValues(_, _, _, _)

\* for sub_entity in sub_entities { Self::extract(&parse_fragment(..), &mut sub_result, ..)? }
ExtractSubEntities(d, el, subs, acc) ==
    IF subs = << >> THEN Ok(acc)
    ELSE LET r == Extract(d, el, acc, Head(subs)) IN
         IF ~r.ok THEN r ELSE ExtractSubEntities(d, el, Tail(subs), r.map)

\* the value extract_one and extract_all compute for one element; the
\* sub-entities run on the fragment parsed from the element's own html
ExtractElement(d, m, sub_entities, attribute) ==
    IF sub_entities # None THEN
        LET r == ExtractSubEntities(d, m, sub_entities[1], EmptyMap) IN
        IF ~r.ok THEN r ELSE Ok(Object(r.map))
    ELSE IF attribute # None THEN Ok(String(AttrOr(d, m, attribute[1])))
    ELSE Ok(String(Trim(ElemText(d, m))))

\* an extract_one that skips a step that finds no element
ExtractOneLenient(d, el, res, locator, name, sub_entities, attribute) ==
    IF ~ValidSelector(locator) THEN Err(InvalidSelector(locator))
    ELSE LET ms == SelectFragment(d, el, locator) IN
         IF ms = << >> THEN Ok(res)
         ELSE LET v == ExtractElement(d, ms[1], sub_entities, attribute) IN
              IF ~v.ok THEN v ELSE Ok(Insert(res, KeyOf(name, locator), v.map))

ExtractOne(d, el, res, locator, name, sub_entities, attribute) ==
    IF ~ValidSelector(locator) THEN Err(InvalidSelector(locator))
    ELSE LET ms == SelectFragment(d, el, locator) IN
         IF ms = << >> THEN Err(ElementNotFound(locator))
         ELSE LET v == ExtractElement(d, ms[1], sub_entities, attribute) IN
              IF ~v.ok THEN v ELSE Ok(Insert(res, KeyOf(name, locator), v.map))

ExtractAllValues(d, ms, step, acc) ==
    IF ms = << >> THEN Ok(acc)
    ELSE LET v == ExtractElement(d, Head(ms), step.sub_rules, step.attribute) IN
         IF ~v.ok THEN v ELSE ExtractAllValues(d, Tail(ms), step, Append(acc, v.map))

ExtractAll(d, el, res, step) ==
    IF ~ValidSelector(step.selector) THEN Err(InvalidSelector(step.selector))
    ELSE LET ms == SelectFragment(d, el, step.selector) IN
         IF ms = << >> THEN Err(ElementNotFound(step.selector))
         ELSE LET vs == ExtractAllValues(d, ms, step, << >>) IN
              IF ~vs.ok THEN vs
              ELSE Ok(Insert(res, KeyOf(step.name, step.selector), Array(vs.map)))

ExtractText(d, el, res, locator, name) ==
    IF ~ValidSelector(locator) THEN Err(InvalidSelector(locator))
    ELSE Ok(Insert(res, KeyOf(name, locator),
                   String(Join(SplitWhitespace(
                                   Join(ElemTexts(d, SelectFragment(d, el, locator)),
                                        <<SP>>)),
                               <<SP>>))))

Extract(d, el, res, step) ==
    IF step.type = "One" THEN
        ExtractOne(d, el, res, step.selector, step.name, step.sub_rules, step.attribute)
    ELSE IF step.type = "All" THEN ExtractAll(d, el, res, step)
    ELSE ExtractText(d, el, res, step.selector, step.name)

----------------------------------------------------------------------------
(* scraper_config.rs: the JSON text of a ScraperConfig (Display, derived   *)
(* Serialize) and its decoding (serde_json::from_str, derived              *)
(* Deserialize).  ScrapeRule is internally tagged: #[serde(tag = "type")]. *)

\* a one-character string of the model as the String it stands for
Chars(a) == <<a>>

\* the characters of a literal key or tag
TypeKey == <<"t", "y", "p", "e">>
SelectorKey == <<"s", "e", "l", "e", "c", "t", "o", "r">>
NameKey == <<"n", "a", "m", "e">>
SubRulesKey == <<"s", "u", "b", "_", "r", "u", "l", "e", "s">>
AttributeKey == <<"a", "t", "t", "r", "i", "b", "u", "t", "e">>
RulesKey == <<"r", "u", "l", "e", "s">>
NullText == <<"n", "u", "l", "l">>
OneTag == <<"O", "n", "e">>
AllTag == <<"A", "l", "l">>
TextTag == <<"T", "e", "x", "t">>

TagOf(type) == IF type = "One" THEN OneTag ELSE IF type = "All" THEN AllTag ELSE TextTag

\* "key":value
Member(key, value) == JsonString(key) \o <<":">> \o value

RECURSIVE RuleToJson(_)
RECURSIVE RulesToJson(_)

\* to_string(&Vec<ScrapeRule>)
RulesToJson(rs) ==
    <<"[">> \o Join([j \in 1..Len(rs) |-> RuleToJson(rs[j])], <<",">>) \o <<"]">>

\* to_string(&ScrapeRule): the tag first, then the fields as declared; an
\* Option is null or its content
RuleToJson(rule) ==
    <<"{">>
    \o Member(TypeKey, JsonString(TagOf(rule.type)))
    \o <<",">> \o Member(SelectorKey, JsonString(Chars(rule.selector)))
    \o <<",">> \o Member(NameKey, JsonString(Chars(rule.name[1])))
    \o (IF rule.type = "Text" THEN << >>
        ELSE <<",">>
             \o Member(SubRulesKey,
                       IF rule.sub_rules = None THEN NullText
                       ELSE RulesToJson(rule.sub_rules[1]))
             \o <<",">>
             \o Member(AttributeKey,
                       IF rule.attribute = None THEN NullText
                       ELSE JsonString(Chars(rule.attribute[1]))))
    \o <<"}">>

\* impl Display for ScraperConfig: serde_json::to_string(self)
ConfigToString(rs) == <<"{">> \o Member(RulesKey, RulesToJson(rs)) \o <<"}">>

\* a parsed JSON value: null, a string, an array of values, or an object as
\* the sequence of its (key, value) members
JNull == [k |-> "null", v |-> << >>]
JString(s) == [k |-> "str", v |-> s]
JArray(a) == [k |-> "arr", v |-> a]
JObject(ms) == [k |-> "obj", v |-> ms]
JOther == [k |-> "other", v |-> << >>]

\* the outcome of parsing from a position: the value and the position after it
Parsed(val, pos) == [ok |-> TRUE, val |-> val, pos |-> pos]
Syntax(pos) == [ok |-> FALSE, val |-> JNull, pos |-> pos]

RECURSIVE SkipWs(_, _)
SkipWs(t, p) ==
    IF p <= Len(t) /\ t[p] \in {" ", "\n", "\t", "\r"} THEN SkipWs(t, p + 1) ELSE p

\* t has the characters of lit from position p on
HasAt(t, p, lit) ==
    /\ p + Len(lit) - 1 <= Len(t)
    /\ \A j \in 1..Len(lit) : t[p + j - 1] = lit[j]

RECURSIVE ParseStringFrom(_, _, _)
\* the rest of a string literal, from inside the quotes
ParseStringFrom(t, p, acc) ==
    IF p > Len(t) THEN Syntax(p)
    ELSE IF t[p] = "\"" THEN Parsed(JString(acc), p + 1)
    ELSE IF t[p] = "\\" THEN
        IF p + 1 > Len(t) THEN Syntax(p)
        ELSE IF t[p + 1] \in {"\"", "\\", "/"}
             THEN ParseStringFrom(t, p + 2, Append(acc, t[p + 1]))
        ELSE IF t[p + 1] = "n" THEN ParseStringFrom(t, p + 2, Append(acc, "\n"))
        ELSE IF t[p + 1] = "t" THEN ParseStringFrom(t, p + 2, Append(acc, "\t"))
        ELSE IF t[p + 1] = "r" THEN ParseStringFrom(t, p + 2, Append(acc, "\r"))
        ELSE Syntax(p)
    ELSE IF t[p] \in {"\n", "\t", "\r"} THEN Syntax(p)
    ELSE ParseStringFrom(t, p + 1, Append(acc, t[p]))

RECURSIVE ParseValue(_, _)
RECURSIVE ParseElements(_, _, _)
RECURSIVE ParseMembers(_, _, _)

\* the elements of an array after "[" or after a ","
ParseElements(t, p, acc) ==
    LET e == ParseValue(t, p) IN
    IF ~e.ok THEN e
    ELSE LET q == SkipWs(t, e.pos) IN
         IF q > Len(t) THEN Syntax(q)
         ELSE IF t[q] = "," THEN ParseElements(t, q + 1, Append(acc, e.val))
         ELSE IF t[q] = "]" THEN Parsed(JArray(Append(acc, e.val)), q + 1)
         ELSE Syntax(q)

\* the members of an object after "{" or after a ","
ParseMembers(t, p, acc) ==
    LET q == SkipWs(t, p) IN
    IF q > Len(t) \/ t[q] # "\"" THEN Syntax(q)
    ELSE LET key == ParseStringFrom(t, q + 1, << >>) IN
         IF ~key.ok THEN key
         ELSE LET c == SkipWs(t, key.pos) IN
              IF c > Len(t) \/ t[c] # ":" THEN Syntax(c)
              ELSE LET e == ParseValue(t, c + 1) IN
                   IF ~e.ok THEN e
                   ELSE LET r == SkipWs(t, e.pos)
                            ms == Append(acc, <<key.val.v, e.val>>)
                        IN
                        IF r > Len(t) THEN Syntax(r)
                        ELSE IF t[r] = "," THEN ParseMembers(t, r + 1, ms)
                        ELSE IF t[r] = "}" THEN Parsed(JObject(ms), r + 1)
                        ELSE Syntax(r)

\* one JSON value from position p on
ParseValue(t, p) ==
    LET q == SkipWs(t, p) IN
    IF q > Len(t) THEN Syntax(q)
    ELSE IF t[q] = "\"" THEN ParseStringFrom(t, q + 1, << >>)
    ELSE IF HasAt(t, q, NullText) THEN Parsed(JNull, q + 4)
    ELSE IF HasAt(t, q, <<"t", "r", "u", "e">>) THEN Parsed(JOther, q + 4)
    ELSE IF HasAt(t, q, <<"f", "a", "l", "s", "e">>) THEN Parsed(JOther, q + 5)
    ELSE IF t[q] = "[" THEN
        (IF SkipWs(t, q + 1) <= Len(t) /\ t[SkipWs(t, q + 1)] = "]"
         THEN Parsed(JArray(<< >>), SkipWs(t, q + 1) + 1)
         ELSE ParseElements(t, q + 1, << >>))
    ELSE IF t[q] = "{" THEN
        (IF SkipWs(t, q + 1) <= Len(t) /\ t[SkipWs(t, q + 1)] = "}"
         THEN Parsed(JObject(<< >>), SkipWs(t, q + 1) + 1)
         ELSE ParseMembers(t, q + 1, << >>))
    ELSE Syntax(q)

\* the whole text is one JSON value, whitespace around it allowed
ParseJson(t) ==
    LET r == ParseValue(t, 1) IN
    IF r.ok /\ SkipWs(t, r.pos) # Len(t) + 1 THEN Syntax(r.pos) ELSE r

\* the outcome of deserialising: a value, or a serde_json::Error
Decoded(x) == [ok |-> TRUE, val |-> x]
DecodeError == [ok |-> FALSE, val |-> << >>]

\* the positions of the members of an object that have the given key
FieldsNamed(ms, key) == {j \in 1..Len(ms) : ms[j][1] = key}

\* the value of the only member with the given key
Field(ms, key) == ms[CHOOSE j \in FieldsNamed(ms, key) : TRUE][2]

\* the String of a JSON string as the one-character name the model uses for
\* it: selectors, names and attributes of the model are single characters
Atom(s) == s[1]

\* a required String field: present once and a JSON string
StringField(ms, key) ==
    IF Cardinality(FieldsNamed(ms, key)) # 1 THEN DecodeError
    ELSE IF Field(ms, key).k # "str" THEN DecodeError
    ELSE Decoded(Atom(Field(ms, key).v))

\* Option<String> with #[serde(default)]: absent or null is None
OptionStringField(ms, key) ==
    IF FieldsNamed(ms, key) = {} THEN Decoded(None)
    ELSE IF Cardinality(FieldsNamed(ms, key)) # 1 THEN DecodeError
    ELSE IF Field(ms, key).k = "null" THEN Decoded(None)
    ELSE IF Field(ms, key).k # "str" THEN DecodeError
    ELSE Decoded(Some(Atom(Field(ms, key).v)))

\* the variant a tag names
VariantOf(tag) ==
    IF tag = OneTag THEN "One" ELSE IF tag = AllTag THEN "All" ELSE "Text"

RECURSIVE DecodeRule(_)
RECURSIVE DecodeRules(_)
RECURSIVE SubRulesField(_)

\* Vec<ScrapeRule> from a JSON array
DecodeRules(v) ==
    IF v.k # "arr" THEN DecodeError
    ELSE LET ds == [j \in 1..Len(v.v) |-> DecodeRule(v.v[j])] IN
         IF \E j \in 1..Len(ds) : ~ds[j].ok THEN DecodeError
         ELSE Decoded([j \in 1..Len(ds) |-> ds[j].val])

\* Option<Vec<ScrapeRule>> with #[serde(default)]: absent or null is None
SubRulesField(ms) ==
    IF FieldsNamed(ms, SubRulesKey) = {} THEN Decoded(None)
    ELSE IF Cardinality(FieldsNamed(ms, SubRulesKey)) # 1 THEN DecodeError
    ELSE IF Field(ms, SubRulesKey).k = "null" THEN Decoded(None)
    ELSE LET rs == DecodeRules(Field(ms, SubRulesKey)) IN
         IF rs.ok THEN Decoded(Some(rs.val)) ELSE DecodeError

\* ScrapeRule from a JSON object: the member "type" picks the variant, the
\* other members are its fields; members of other names are ignored
DecodeRule(v) ==
    IF v.k # "obj" THEN DecodeError
    ELSE IF Cardinality(FieldsNamed(v.v, TypeKey)) # 1 THEN DecodeError
    ELSE IF Field(v.v, TypeKey).k # "str" THEN DecodeError
    ELSE IF Field(v.v, TypeKey).v \notin {OneTag, AllTag, TextTag} THEN DecodeError
    ELSE LET type == VariantOf(Field(v.v, TypeKey).v)
             selector == StringField(v.v, SelectorKey)
             name == StringField(v.v, NameKey)
         IN
         IF ~selector.ok \/ ~name.ok THEN DecodeError
         ELSE IF type = "Text" THEN Decoded(TextRule(selector.val, Some(name.val)))
         ELSE LET sub == SubRulesField(v.v)
                  attribute == OptionStringField(v.v, AttributeKey)
              IN
              IF ~sub.ok \/ ~attribute.ok THEN DecodeError
              ELSE Decoded([type |-> type, selector |-> selector.val,
                            name |-> Some(name.val), sub_rules |-> sub.val,
                            attribute |-> attribute.val])

\* ScraperConfig from a JSON object with the member "rules", or from a JSON
\* array holding the rules as its only element
DecodeConfig(v) ==
    IF v.k = "arr" THEN
        (IF Len(v.v) # 1 THEN DecodeError ELSE DecodeRules(v.v[1]))
    ELSE IF v.k # "obj" THEN DecodeError
    ELSE IF Cardinality(FieldsNamed(v.v, RulesKey)) # 1 THEN DecodeError
    ELSE DecodeRules(Field(v.v, RulesKey))

\* serde_json::from_str::<ScraperConfig>
JsonFromStr(t) ==
    LET r == ParseJson(t) IN IF r.ok THEN DecodeConfig(r.val) ELSE DecodeError

----------------------------------------------------------------------------
(* toml::from_str::<ScraperConfig> (feature toml_config), for the TOML the *)
(* model's configurations are written in: blank lines, comment lines, the  *)
(* header [[rules]], and lines  key = "string"  or  key = [] .  A text     *)
(* with any other line, as every JSON text is, is not in that form; the    *)
(* model takes it for a TOML syntax error.                                 *)

BareKeyChars ==
    {"a", "b", "c", "d", "e", "f", "g", "h", "i", "j", "k", "l", "m", "n", "o",
     "p", "q", "r", "s", "t", "u", "v", "w", "x", "y", "z", "_", "-"}

RulesHeader == <<"[", "[", "r", "u", "l", "e", "s", "]", "]">>

\* the first position from p on that holds c, or 0
IndexOf(t, c, p) ==
    LET at == {j \in p..Len(t) : t[j] = c} IN
    IF at = {} THEN 0 ELSE CHOOSE j \in at : \A k \in at : j <= k

\* the lines of the document: the text between its line feeds
TomlLines(t) ==
    LET feeds == {j \in 1..Len(t) : t[j] = NL}
        feed(k) == CHOOSE j \in feeds : Cardinality({i \in feeds : i < j}) = k - 1
        n == Cardinality(feeds)
    IN
    [k \in 1..(n + 1) |->
        SubSeq(t, IF k = 1 THEN 1 ELSE feed(k - 1) + 1,
                  IF k = n + 1 THEN Len(t) ELSE feed(k) - 1)]

\* nothing but whitespace or a comment from position p on
EndOfLine(t, p) == SkipWs(t, p) > Len(t) \/ t[SkipWs(t, p)] = "#"

TomlLine(kind, key, val) == [kind |-> kind, key |-> key, val |-> val]

\* one line of the document
ParseTomlLine(line) ==
    LET l == Trim(line)
        eq == IndexOf(l, "=", 1)
        key == Trim(SubSeq(l, 1, eq - 1))
        v == SkipWs(l, eq + 1)
    IN
    IF l = << >> \/ l[1] = "#" THEN TomlLine("blank", << >>, JNull)
    ELSE IF HasAt(l, 1, RulesHeader) /\ EndOfLine(l, Len(RulesHeader) + 1)
         THEN TomlLine("header", << >>, JNull)
    ELSE IF eq = 0 \/ key = << >> \/ \E j \in 1..Len(key) : key[j] \notin BareKeyChars
         THEN TomlLine("bad", << >>, JNull)
    ELSE IF v > Len(l) THEN TomlLine("bad", << >>, JNull)
    ELSE IF l[v] = "\"" THEN
        (LET s == ParseStringFrom(l, v + 1, << >>) IN
         IF s.ok /\ EndOfLine(l, s.pos) THEN TomlLine("pair", key, s.val)
         ELSE TomlLine("bad", << >>, JNull))
    ELSE IF HasAt(l, v, <<"[", "]">>) /\ EndOfLine(l, v + 2)
         THEN TomlLine("pair", key, JArray(<< >>))
    ELSE TomlLine("bad", << >>, JNull)

RECURSIVE TomlTables(_, _, _, _)
\* the lines from j on, given the members of the top-level table and the
\* [[rules]] tables read so far; a key defined twice in a table is an error
TomlTables(ls, j, top, tables) ==
    IF j > Len(ls) THEN
        (IF tables = << >> THEN Parsed(JObject(top), j)
         ELSE IF FieldsNamed(top, RulesKey) # {} THEN Syntax(j)
         ELSE Parsed(JObject(Append(top, <<RulesKey, JArray(tables)>>)), j))
    ELSE LET l == ParseTomlLine(ls[j]) IN
         IF l.kind = "bad" THEN Syntax(j)
         ELSE IF l.kind = "blank" THEN TomlTables(ls, j + 1, top, tables)
         ELSE IF l.kind = "header"
              THEN TomlTables(ls, j + 1, top, Append(tables, JObject(<< >>)))
         ELSE IF tables = << >> THEN
             (IF FieldsNamed(top, l.key) # {} THEN Syntax(j)
              ELSE TomlTables(ls, j + 1, Append(top, <<l.key, l.val>>), tables))
         ELSE LET cur == tables[Len(tables)].v IN
              IF FieldsNamed(cur, l.key) # {} THEN Syntax(j)
              ELSE TomlTables(ls, j + 1, top,
                              [tables EXCEPT ![Len(tables)] =
                                   JObject(Append(cur, <<l.key, l.val>>))])

\* toml::from_str::<ScraperConfig>: the document is a table; serde decodes
\* it as it decodes a JSON object
TomlFromStr(t) ==
    LET r == TomlTables(TomlLines(t), 1, << >>, << >>) IN
    IF r.ok THEN DecodeConfig(r.val) ELSE DecodeError

----------------------------------------------------------------------------
(* ScrapeConfig::from_config (scraper_config.rs), with the file system and *)
(* the build feature toml_config as its environment.                       *)

\* ConfigError (error.rs)
ConfigError(kind) == [kind |-> kind, locator |-> ""]

\* str::ends_with
EndsWith(t, suffix) ==
    Len(suffix) <= Len(t) /\ SubSeq(t, Len(t) - Len(suffix) + 1, Len(t)) = suffix

DotJson == <<".", "j", "s", "o", "n">>
DotToml == <<".", "t", "o", "m", "l">>

\* Result<ScraperConfig, ConfigError>
Loaded(rs) == [ok |-> TRUE, rules |-> rs, error |-> None]
NotLoaded(kind) == [ok |-> FALSE, rules |-> << >>, error |-> Some(ConfigError(kind))]

\* a decoding outcome as a Result, the error converted with From
LoadedOr(r, kind) == IF r.ok THEN Loaded(r.val) ELSE NotLoaded(kind)

\* a from_config that never looks at the file system
FromConfigInline(path, fs, feature) ==
    IF JsonFromStr(path).ok THEN Loaded(JsonFromStr(path).val)
    ELSE IF feature THEN LoadedOr(TomlFromStr(path), "TomlParse")
    ELSE NotLoaded("UnsupportedFormat")

\* from_config(path) where fs maps every existing path to Some(content), or
\* to None when it cannot be read as text (a directory), and feature tells
\* whether toml_config is enabled; path is the parameter named config
FromConfig(path, fs, feature) ==
    IF path \in DOMAIN fs THEN
        IF fs[path] = None THEN NotLoaded("Io")
        ELSE IF EndsWith(path, DotJson)
             THEN LoadedOr(JsonFromStr(fs[path][1]), "JsonParse")
        ELSE IF EndsWith(path, DotToml) THEN
            (IF feature THEN LoadedOr(TomlFromStr(fs[path][1]), "TomlParse")
             ELSE NotLoaded("TomlNotEnabled"))
        ELSE NotLoaded("UnsupportedFormat")
    ELSE IF JsonFromStr(path).ok THEN Loaded(JsonFromStr(path).val)
    ELSE IF feature THEN LoadedOr(TomlFromStr(path), "TomlParse")
    ELSE NotLoaded("UnsupportedFormat")

----------------------------------------------------------------------------
(* Inputs: the rule lists a caller hands to one of the three entry points. *)

Variants == {"visitor", "folder", "old"}

AttrOptions == {None, Some("h")}

\* sub-rule lists: absent, empty, one Text rule, two rules with different
\* names, two rules with the same name, and a rule with sub-rules of its own
SubRuleOptions ==
    {None,
     Some(<< >>),
     Some(<<TextRule("q", Some("y"))>>),
     Some(<<OneRule("q", Some("x"), None, None),
            AllRule("p", Some("y"), None, Some("h"))>>),
     Some(<<OneRule("p", Some("y"), None, Some("h")),
            TextRule("q", Some("y"))>>),
     Some(<<AllRule("q", Some("x"), Some(<<TextRule("p", Some("y"))>>), None)>>)}

\* single rules: One and All with every sub-rule list, with an attribute
\* beside no sub-rules and beside two of them, and Text
NestedRules ==
    {[type |-> t, selector |-> sel, name |-> Some("x"), sub_rules |-> sub,
      attribute |-> None] :
        t \in {"One", "All"}, sel \in Classes, sub \in SubRuleOptions}
    \cup {[type |-> t, selector |-> sel, name |-> Some("x"), sub_rules |-> sub,
           attribute |-> Some("h")] :
        t \in {"One", "All"}, sel \in Classes,
        sub \in {o \in SubRuleOptions : o = None \/ Len(o[1]) = 2}}
    \cup {TextRule(sel, Some("x")) : sel \in Classes}

\* the rules of the longer lists: no sub-rules, no attribute; one of them
\* has a selector that does not parse, and the entry points whose rules may
\* go unnamed get one unnamed rule
ListRules(v) ==
    {OneRule("p", Some("x"), None, None), OneRule("p", Some("y"), None, None),
     TextRule("p", Some("x")), OneRule("#", Some("y"), None, None)}
    \cup (IF v = "visitor" THEN {} ELSE {OneRule("q", None, None, None)})

RECURSIVE SeqsOf(_, _)
\* the sequences of exactly n elements of s
SeqsOf(s, n) ==
    IF n = 0 THEN {<< >>}
    ELSE {<<x>> \o t : x \in s, t \in SeqsOf(s, n - 1)}

\* the lists of at most MaxRules rules
RuleLists(v) == UNION {SeqsOf(ListRules(v), n) : n \in 0..MaxRules}

----------------------------------------------------------------------------
(* The state machine: one call of an entry point on one document.          *)

\* HtmlScraperBuilder::new, HtmlScraper::default: no configuration text, so
\* that scrape takes the rules of T::get_config(); the environment of
\* from_config plays no part
NoConfig == config = None /\ builtin = rules /\ files = << >> /\ toml = FALSE

\* no text has been handed to a cleaner directly
NoText == input = << >> /\ output = None

Init ==
    /\ variant \in Variants
    /\ \/ /\ rules \in {<<r>> : r \in NestedRules}
          /\ doc \in DocsUpTo(MaxNodes)
       \/ /\ rules \in RuleLists(variant)
          /\ doc \in DocsUpTo(MaxNodes - 1)
    /\ cleaner \in (IF variant = "visitor" THEN Cleaners ELSE {"none"})
    /\ idx = 1
    /\ result = EmptyMap
    /\ status = "running"
    /\ error = None
    /\ first = None
    /\ todo = {}
    /\ parts = << >>
    /\ NoConfig
    /\ NoText

InLoop(v) == variant = v /\ status = "running" /\ idx <= Len(rules)
LoopDone(v) == variant = v /\ status = "running" /\ idx > Len(rules)

\* html_scraper.rs, HtmlScraper::scrape: one turn of the loop over the rules
VisitorStep ==
    /\ InLoop("visitor")
    /\ \E seed \in Seeds :
         LET r == VisitElement(doc, Root, rules[idx], cleaner, seed) IN
         IF r.panic
         THEN /\ status' = "panic"
              /\ UNCHANGED <<idx, result>>
         ELSE /\ result' = Extend(result, r.map)
              /\ idx' = idx + 1
              /\ UNCHANGED status
    /\ UNCHANGED <<config, env, input, output, doc, rules, variant, cleaner, error, first, todo, parts>>

\* folder.rs, HtmlScraper::scrape: one turn of the loop over the rules
FolderStep ==
    /\ InLoop("folder")
    /\ LET value == FoldRule(doc, rules[idx], Root) IN
       IF value = Panic
       THEN /\ status' = "panic"
            /\ UNCHANGED <<idx, result>>
       ELSE /\ result' = IF rules[idx].name # None
                         THEN Insert(result, rules[idx].name[1], value)
                         ELSE result
            /\ idx' = idx + 1
            /\ UNCHANGED status
    /\ UNCHANGED <<config, env, input, output, doc, rules, variant, cleaner, error, first, todo, parts>>

\* old.rs, HtmlScraper::scrape_html: one turn of the loop over the steps;
\* the ? operator returns the first error and drops the map
OldStep ==
    /\ InLoop("old")
    /\ LET r == Extract(doc, Root, result, rules[idx]) IN
       IF r.ok
       THEN /\ result' = r.map
            /\ idx' = idx + 1
            /\ UNCHANGED <<status, error>>
       ELSE /\ status' = "err"
            /\ error' = Some(r.err)
            /\ result' = EmptyMap
            /\ UNCHANGED idx
    /\ UNCHANGED <<config, env, input, output, doc, rules, variant, cleaner, first, todo, parts>>

\* Ok(T::from(result)) / Ok(result) after the loop
Return ==
    /\ \E v \in Variants : LoopDone(v)
    /\ status' = "ok"
    /\ UNCHANGED <<config, env, input, output, doc, rules, variant, cleaner, idx, result, error, first,
                   todo, parts>>

Next == VisitorStep \/ FolderStep \/ OldStep \/ Return

Spec == Init /\ [][Next]_vars

\* the caller keeps the map a call returned and calls the same entry point
\* again, on the same scraper, with the same document and rules
Again ==
    /\ status = "ok"
    /\ first = None
    /\ first' = Some(result)
    /\ idx' = 1
    /\ result' = EmptyMap
    /\ status' = "running"
    /\ UNCHANGED <<config, env, input, output, doc, rules, variant, cleaner, error, todo, parts>>

NextTwice == Next \/ Again

\* two calls in a row
SpecTwice == Init /\ [][NextTwice]_vars

----------------------------------------------------------------------------
(* A scrape configured by text: HtmlScraperBuilder::with_config, and the   *)
(* call of from_config that opens HtmlScraper::scrape.                     *)

\* the paths of the model: a .json file, a .json file that is not JSON, a
\* .toml file, a file of another suffix, and a directory
ConfigFile == <<"c", ".", "j", "s", "o", "n">>
BadFile == <<"b", ".", "j", "s", "o", "n">>
TomlFile == <<"c", ".", "t", "o", "m", "l">>
TextFile == <<"c", ".", "t", "x", "t">>
Directory == <<"d">>

Paths == {ConfigFile, BadFile, TomlFile, TextFile, Directory}

\* the rules of a configuration that is not the built-in one
OtherRules == <<TextRule("q", Some("y"))>>

\* the same rules written as TOML
OtherToml ==
    RulesHeader \o <<NL>>
    \o <<"t", "y", "p", "e", SP, "=", SP, "\"", "T", "e", "x", "t", "\"", NL>>
    \o <<"s", "e", "l", "e", "c", "t", "o", "r", SP, "=", SP, "\"", "q", "\"", NL>>
    \o <<"n", "a", "m", "e", SP, "=", SP, "\"", "y", "\"", NL>>

\* a text that is neither JSON nor TOML
Malformed == <<"{">>

\* the built-in configuration written to c.json and c.txt, next to the
\* other files
Disk(rs) ==
    (ConfigFile :> Some(ConfigToString(rs)))
    @@ (BadFile :> Some(Malformed))
    @@ (TomlFile :> Some(OtherToml))
    @@ (TextFile :> Some(ConfigToString(rs)))
    @@ (Directory :> None)

\* the file systems of the model: no file at all, or the files above
FileSystems(rs) == {<< >>, Disk(rs)}

\* what the caller hands to with_config: the text of a configuration
\* (test_config_struct: config.to_string()), as JSON or as TOML, a
\* malformed text, or a path, whether or not a file is there
ConfigTexts ==
    {ConfigToString(builtin), ConfigToString(OtherRules), OtherToml, Malformed}
    \cup Paths

InitConfig ==
    /\ variant = "visitor"
    /\ doc \in DocsUpTo(MaxNodes - 1)
    /\ rules \in {<<r>> : r \in NestedRules} \cup RuleLists("visitor")
    /\ cleaner = "none"
    /\ idx = 1
    /\ result = EmptyMap
    /\ status = "running"
    /\ error = None
    /\ first = None
    /\ todo = {}
    /\ parts = << >>
    /\ config = None
    /\ builtin = rules
    /\ files \in FileSystems(rules)
    /\ toml \in BOOLEAN
    /\ NoText

\* the caller keeps the result of the scrape with the rules of
\* T::get_config(), builds a scraper with_config(text) and calls scrape
WithConfig ==
    /\ status = "ok"
    /\ first = None
    /\ config = None
    /\ \E text \in ConfigTexts : config' = Some(text)
    /\ first' = Some(result)
    /\ idx' = 1
    /\ result' = EmptyMap
    /\ status' = "config"
    /\ UNCHANGED <<env, input, output, doc, rules, variant, cleaner, error, todo, parts>>

\* html_scraper.rs, HtmlScraper::scrape: T::from_config(&config_str)?
LoadConfig ==
    /\ status = "config"
    /\ LET r == FromConfig(config[1], files, toml) IN
       IF r.ok
       THEN /\ rules' = r.rules
            /\ status' = "running"
            /\ UNCHANGED error
       ELSE /\ error' = r.error
            /\ status' = "err"
            /\ UNCHANGED rules
    /\ UNCHANGED <<config, env, input, output, doc, variant, cleaner, idx, result, first, todo, parts>>

NextConfig == VisitorStep \/ Return \/ WithConfig \/ LoadConfig

\* a scrape with the built-in rules, then a scrape configured by text
SpecConfig == InitConfig /\ [][NextConfig]_vars

----------------------------------------------------------------------------
(* A direct call of TextCleaner::clean (cleaner.rs).                       *)

TextChars == {"a", "b", SP, NL, CR, TAB}

\* "  line1 \n line2  "
PaddedLines ==
    <<SP, SP, "l", "i", "n", "e", "1", SP, NL, SP, "l", "i", "n", "e", "2", SP, SP>>

\* the texts of at most MaxText characters, and the two padded lines
Texts == UNION {SeqsOf(TextChars, n) : n \in 0..MaxText} \cup {PaddedLines}

InitClean ==
    /\ variant = "cleaner"
    /\ cleaner = "default"
    /\ input \in Texts
    /\ output = None
    /\ doc \in DocsOf(0)
    /\ rules = << >>
    /\ idx = 1
    /\ result = EmptyMap
    /\ status = "running"
    /\ error = None
    /\ first = None
    /\ todo = {}
    /\ parts = << >>
    /\ NoConfig

\* cleaner.clean(text)
CleanCall ==
    /\ variant = "cleaner"
    /\ status = "running"
    /\ output' = Some(Clean(cleaner, input))
    /\ status' = "ok"
    /\ UNCHANGED <<config, env, input, doc, rules, variant, cleaner, idx, result,
                   error, first, todo, parts>>

\* cleaner.clean(&cleaned): the caller cleans what the first call returned
CleanAgain ==
    /\ variant = "cleaner"
    /\ status = "ok"
    /\ first = None
    /\ first' = output
    /\ output' = Some(Clean(cleaner, output[1]))
    /\ UNCHANGED <<config, env, input, doc, rules, variant, cleaner, idx, result,
                   status, error, todo, parts>>

NextClean == CleanCall \/ CleanAgain

SpecClean == InitClean /\ [][NextClean]_vars

----------------------------------------------------------------------------
(* The parallel entry points.  html_scraper_mt.rs hands every top-level    *)
(* rule to a rayon task that writes into one shared DashMap; visitor_mt.rs *)
(* maps every ParseRule to a (name, texts) pair in a rayon task and        *)
(* collects the pairs into a HashMap.                                      *)

\* the rules of the parallel scrape: plain rules, a One rule whose
\* sub-rules have the names of other rules, an All rule with two sub-rules,
\* and a selector that does not parse
MtRules ==
    {OneRule("p", Some("x"), None, None),
     TextRule("p", Some("y")),
     OneRule("p", Some("x"),
             Some(<<TextRule("q", Some("y")), OneRule("q", Some("x"), None, None)>>),
             None),
     AllRule("p", Some("y"),
             Some(<<OneRule("q", Some("x"), None, None), TextRule("p", Some("y"))>>),
             None),
     OneRule("#", Some("y"), None, None)}

MtRuleLists == UNION {SeqsOf(MtRules, n) : n \in 0..MaxRules}

Single(name, selector) == [type |-> "Single", name |-> name, selector |-> selector]
Multiple(name, selector) == [type |-> "Multiple", name |-> name, selector |-> selector]

ParseRules ==
    {Single("x", "p"), Single("y", "q"), Multiple("y", "p"), Multiple("x", "q"),
     Single("x", "#")}

ParseRuleLists == UNION {SeqsOf(ParseRules, n) : n \in 0..MaxRules}

\* the sequential scrape first, then the parallel one on the same scraper,
\* document and rules; or HtmlParser::parse
InitMt ==
    /\ doc \in DocsUpTo(MaxNodes - 1)
    /\ \/ /\ variant = "visitor"
          /\ rules \in MtRuleLists
          /\ cleaner \in Cleaners
          /\ todo = {}
       \/ /\ variant = "parser_mt"
          /\ rules \in ParseRuleLists
          /\ cleaner = "none"
          /\ todo = 1..Len(rules)
    /\ idx = 1
    /\ result = EmptyMap
    /\ status = "running"
    /\ error = None
    /\ first = None
    /\ parts = << >>
    /\ NoConfig
    /\ NoText

\* the caller keeps the map of the sequential scrape and calls the parallel
\* scrape: let result = DashMap::new(); rules.par_iter().for_each(..)
Fork ==
    /\ variant = "visitor"
    /\ status = "ok"
    /\ first = None
    /\ first' = Some(result)
    /\ variant' = "visitor_mt"
    /\ todo' = 1..Len(rules)
    /\ result' = EmptyMap
    /\ status' = "running"
    /\ UNCHANGED <<config, env, input, output, doc, rules, cleaner, idx, error, parts>>

\* what a task holds once it has evaluated its rule: the map it computed
\* and the keys of it that it has yet to write
Task(m, left) == [map |-> m, left |-> left]

\* a task that starts from what the shared map holds
MtEvaluateShared ==
    \E i \in 1..Len(rules) :
        /\ variant = "visitor_mt"
        /\ status = "running"
        /\ i \in todo
        /\ i \notin DOMAIN parts
        /\ \E seed \in Seeds :
             LET r == VisitElement(doc, Root, rules[i], cleaner, seed) IN
             IF r.panic
             THEN /\ status' = "panic"
                  /\ UNCHANGED <<todo, parts>>
             ELSE /\ parts' = parts @@ (i :> Task(Extend(result, r.map), DOMAIN r.map))
                  /\ todo' = IF r.map = EmptyMap THEN todo \ {i} ELSE todo
                  /\ UNCHANGED status
        /\ UNCHANGED <<config, env, input, output, doc, rules, variant, cleaner, idx, result, error, first>>

\* the task of some rule runs the sequential evaluator on the shared root
MtEvaluate ==
    \E i \in 1..Len(rules) :
        /\ variant = "visitor_mt"
        /\ status = "running"
        /\ i \in todo
        /\ i \notin DOMAIN parts
        /\ \E seed \in Seeds :
             LET r == VisitElement(doc, Root, rules[i], cleaner, seed) IN
             IF r.panic
             THEN /\ status' = "panic"
                  /\ UNCHANGED <<todo, parts>>
             ELSE /\ parts' = parts @@ (i :> Task(r.map, DOMAIN r.map))
                  /\ todo' = IF r.map = EmptyMap THEN todo \ {i} ELSE todo
                  /\ UNCHANGED status
        /\ UNCHANGED <<config, env, input, output, doc, rules, variant, cleaner, idx, result, error, first>>

\* a task that is done after the first entry it writes
MtInsertOnce ==
    \E i \in 1..Len(rules) :
        /\ variant = "visitor_mt"
        /\ status = "running"
        /\ i \in todo
        /\ i \in DOMAIN parts
        /\ \E k \in parts[i].left :
             /\ result' = Insert(result, k, parts[i].map[k])
             /\ parts' = [parts EXCEPT ![i].left = {}]
             /\ todo' = todo \ {i}
        /\ UNCHANGED <<config, env, input, output, doc, rules, variant, cleaner, idx, status, error, first>>

\* the task of some rule writes one of its entries into the shared DashMap
MtInsert ==
    \E i \in 1..Len(rules) :
        /\ variant = "visitor_mt"
        /\ status = "running"
        /\ i \in todo
        /\ i \in DOMAIN parts
        /\ \E k \in parts[i].left :
             /\ result' = Insert(result, k, parts[i].map[k])
             /\ parts' = [parts EXCEPT ![i].left = @ \ {k}]
             /\ todo' = IF parts[i].left = {k} THEN todo \ {i} ELSE todo
        /\ UNCHANGED <<config, env, input, output, doc, rules, variant, cleaner, idx, status, error, first>>

\* a return that does not wait for the tasks
MtReturnEarly ==
    /\ variant = "visitor_mt"
    /\ status = "running"
    /\ status' = "ok"
    /\ UNCHANGED <<config, env, input, output, doc, rules, variant, cleaner, idx, result, error, first,
                   todo, parts>>

\* for_each has returned: Ok(T::from(result))
MtReturn ==
    /\ variant = "visitor_mt"
    /\ status = "running"
    /\ todo = {}
    /\ status' = "ok"
    /\ UNCHANGED <<config, env, input, output, doc, rules, variant, cleaner, idx, result, error, first,
                   todo, parts>>

\* the closure of HtmlParser::parse on one rule
ParseRule(d, rule) ==
    IF ~ValidSelector(rule.selector) THEN Panicked
    ELSE LET ms == SelectFragment(d, Root, rule.selector) IN
         Returned(Insert(EmptyMap, rule.name,
                         IF rule.type = "Single"
                         THEN <<IF ms = << >> THEN << >> ELSE ElemText(d, ms[1])>>
                         ELSE ElemTexts(d, ms)))

\* a rayon task maps some rule to its pair
ParseMap ==
    \E i \in 1..Len(rules) :
        /\ variant = "parser_mt"
        /\ status = "running"
        /\ i \in todo
        /\ LET r == ParseRule(doc, rules[i]) IN
           IF r.panic
           THEN /\ status' = "panic"
                /\ UNCHANGED <<todo, parts>>
           ELSE /\ parts' = parts @@ (i :> Task(r.map, {}))
                /\ todo' = todo \ {i}
                /\ UNCHANGED status
        /\ UNCHANGED <<config, env, input, output, doc, rules, variant, cleaner, idx, result, error, first>>

RECURSIVE CollectFromFirst(_, _, _)
\* a collect in which the first pair of a key stays
CollectFromFirst(ps, i, acc) ==
    IF i > Len(rules) THEN acc
    ELSE CollectFromFirst(ps, i + 1, ExtendKeepFirst(acc, ps[i].map))

RECURSIVE CollectFrom(_, _, _)
\* .collect(): the pairs go into the HashMap in the order of the rules
CollectFrom(ps, i, acc) ==
    IF i > Len(rules) THEN acc ELSE CollectFrom(ps, i + 1, Extend(acc, ps[i].map))

ParseCollect ==
    /\ variant = "parser_mt"
    /\ status = "running"
    /\ todo = {}
    /\ result' = CollectFrom(parts, 1, EmptyMap)
    /\ status' = "ok"
    /\ UNCHANGED <<config, env, input, output, doc, rules, variant, cleaner, idx, error, first, todo, parts>>

NextMt ==
    \/ VisitorStep
    \/ Return
    \/ Fork
    \/ MtEvaluate
    \/ MtInsert
    \/ ParseMap
    \/ MtReturn
    \/ ParseCollect

SpecMt == InitMt /\ [][NextMt]_vars

\* one call of the sequential scrape, or one call of the parallel scrape,
\* from its first statement
InitRun ==
    /\ doc \in DocsUpTo(MaxNodes - 1)
    /\ rules \in MtRuleLists
    /\ cleaner \in Cleaners
    /\ variant \in {"visitor", "visitor_mt"}
    /\ todo = IF variant = "visitor_mt" THEN 1..Len(rules) ELSE {}
    /\ idx = 1
    /\ result = EmptyMap
    /\ status = "running"
    /\ error = None
    /\ first = None
    /\ parts = << >>
    /\ NoConfig
    /\ NoText

NextRun ==
    \/ VisitorStep
    \/ Return
    \/ MtEvaluate
    \/ MtInsert
    \/ MtReturn

\* a rule is waiting to be evaluated: the loop has not reached the end of
\* the list, or a task of the pool has not run yet; this is when
\* VisitorStep or MtEvaluate is enabled
Evaluating ==
    /\ status = "running"
    /\ \/ variant = "visitor" /\ idx <= Len(rules)
       \/ variant = "visitor_mt" /\ todo \ DOMAIN parts # {}

\* weak fairness of the evaluation steps, with their enabling condition
\* written out
EvaluationRuns ==
    []<>(~Evaluating) \/ []<><<VisitorStep \/ MtEvaluate>>_vars

\* the calling thread goes on with its loop and returns, and the worker
\* pool runs every task it was given and lets for_each return
SpecRun ==
    /\ InitRun /\ [][NextRun]_vars
    /\ EvaluationRuns
    /\ WF_vars(Return) /\ WF_vars(MtInsert) /\ WF_vars(MtReturn)

----------------------------------------------------------------------------
(* Vocabulary of the properties.                                           *)

RuleIndexes == 1..Len(rules)

\* rule i was the last one evaluated and its evaluation came back
Done(i) == idx = i + 1 /\ status \in {"running", "ok"}

\* the evaluation of rule i ended the call
Failed(i) == idx = i /\ status \in {"err", "panic"}

Named(r) == r.name # None

\* the elements a top-level rule selects below the root, in document order
Matches(r) == Select(doc, Root, r.selector)

\* a named rule of the given type with a selector that parses and selects nothing
Unmatched(r, type) ==
    /\ r.type = type
    /\ Named(r)
    /\ ValidSelector(r.selector)
    /\ Matches(r) = << >>

----------------------------------------------------------------------------
(* C1: a Single (One) rule whose selector matches no descendant yields     *)
(* Null under the rule's name, neither an error nor an absent key.         *)

\* C1 as stated: once such a rule is evaluated the call goes on and the
\* result maps the rule's name to Null
C1_NullUnderName ==
    \A i \in RuleIndexes :
        (Unmatched(rules[i], "One") /\ (Done(i) \/ Failed(i)))
        => /\ Done(i)
           /\ rules[i].name[1] \in DOMAIN result
           /\ variant # "visitor"
           /\ result[rules[i].name[1]] = Null

\* C1, amended: the folder stores Null under the name; the visitor writes no
\* key for the rule (the key is there only if an earlier rule of that name
\* wrote it); scrape_html never gets past the rule and returns
\* Err(ElementNotFound(locator))
C1_NoMatchPerVariant ==
    \A i \in RuleIndexes :
        Unmatched(rules[i], "One") =>
            /\ ~(Failed(i) /\ variant # "old")
            /\ (variant = "folder" /\ Done(i))
               => /\ rules[i].name[1] \in DOMAIN result
                  /\ result[rules[i].name[1]] = Null
            /\ (variant = "visitor" /\ Done(i) /\ rules[i].name[1] \in DOMAIN result)
               => \E j \in 1..(i - 1) : rules[j].name = rules[i].name
            /\ variant = "old"
               => /\ idx <= i
                  /\ (idx = i /\ status # "running")
                     => /\ status = "err"
                        /\ error = Some(ElementNotFound(rules[i].selector))

\* a folder run has stored Null for an unmatched One rule
C1_Witness ==
    \E i \in RuleIndexes :
        /\ Unmatched(rules[i], "One")
        /\ doc.n > 0
        /\ variant = "folder"
        /\ Done(i)
        /\ result[rules[i].name[1]] = Null

----------------------------------------------------------------------------
(* C2: a Many (All) rule whose selector matches no descendant yields an    *)
(* empty list under the rule's name, never an error and never Null.        *)

\* the empty list as each entry point stores it: the visitor keeps the JSON
\* text of the list, the other two the list itself
IsEmptyList(v) ==
    IF variant = "visitor" THEN v = <<"[", "]">> ELSE v = Array(<< >>)

\* C2 as stated: once such a rule is evaluated the call goes on and the
\* result maps the rule's name to the empty list
C2_EmptyListUnderName ==
    \A i \in RuleIndexes :
        (Unmatched(rules[i], "All") /\ (Done(i) \/ Failed(i)))
        => /\ Done(i)
           /\ rules[i].name[1] \in DOMAIN result
           /\ IsEmptyList(result[rules[i].name[1]])

\* C2, amended: the folder and the visitor store the empty list (the visitor
\* as the text "[]") under the name and never fail; scrape_html never gets
\* past the rule and returns Err(ElementNotFound(locator))
C2_NoMatchPerVariant ==
    \A i \in RuleIndexes :
        Unmatched(rules[i], "All") =>
            /\ ~(Failed(i) /\ variant # "old")
            /\ (variant # "old" /\ Done(i))
               => /\ rules[i].name[1] \in DOMAIN result
                  /\ IsEmptyList(result[rules[i].name[1]])
            /\ variant = "old"
               => /\ idx <= i
                  /\ (idx = i /\ status # "running")
                     => /\ status = "err"
                        /\ error = Some(ElementNotFound(rules[i].selector))

\* a visitor run has stored "[]" for an unmatched All rule of a document
\* that has elements
C2_Witness ==
    \E i \in RuleIndexes :
        /\ Unmatched(rules[i], "All")
        /\ doc.n > 0
        /\ variant = "visitor"
        /\ Done(i)
        /\ result[rules[i].name[1]] = <<"[", "]">>

----------------------------------------------------------------------------
(* Vocabulary of the properties about matched elements.                    *)

\* the key rule i is stored under
Key(i) == KeyOf(rules[i].name, rules[i].selector)

\* a named One or All rule whose selector parses and selects something
Matched(r) ==
    /\ r.type \in {"One", "All"}
    /\ Named(r)
    /\ ValidSelector(r.selector)
    /\ Matches(r) # << >>

\* the text cleaner the call was configured with, as a function of the text
Cleaned(text) ==
    IF cleaner = "none" THEN text
    ELSE IF cleaner = "default" THEN DefaultClean(text)
    ELSE MarkClean(text)

\* the value of attribute h of element m, the empty string when m has none
AttrValue(m) == IF doc.attr[m] = None THEN << >> ELSE doc.attr[m][1]

\* a leaf string as an entry point stores it: the visitor keeps the string
\* itself, the other two wrap it in Value::String
LeafValue(text) == IF variant = "visitor" THEN text ELSE String(text)

\* a list of leaf strings as an entry point stores it
LeafList(texts) ==
    IF variant = "visitor" THEN JsonArray(texts)
    ELSE Array([k \in 1..Len(texts) |-> String(texts[k])])

\* what rule r stores when leaf(m) is extracted from every selected element m:
\* One keeps the first element's leaf, All the list of all of them
StoredLeaves(r, leaf(_)) ==
    IF r.type = "One" THEN LeafValue(leaf(Matches(r)[1]))
    ELSE LeafList([k \in 1..Len(Matches(r)) |-> leaf(Matches(r)[k])])

----------------------------------------------------------------------------
(* C3: with an attribute and no sub-rules, a matched element lacking the   *)
(* attribute contributes the empty string and one that has it contributes  *)
(* exactly its value; never an error, never absence.                       *)

AttributeRule(r) == Matched(r) /\ r.sub_rules = None /\ r.attribute # None

\* C3 as stated: the stored strings are the attribute values themselves
\* (with no cleaner or with the crate's DefaultCleaner)
C3_ExactAttribute ==
    \A i \in RuleIndexes :
        (AttributeRule(rules[i]) /\ cleaner # "mark" /\ (Done(i) \/ Failed(i)))
        => /\ Done(i)
           /\ Key(i) \in DOMAIN result
           /\ result[Key(i)] = StoredLeaves(rules[i], AttrValue)

\* C3, amended: the stored strings are the attribute values, "" for a missing
\* attribute, after the configured cleaner (unchanged when none is configured)
C3_CleanedAttribute ==
    \A i \in RuleIndexes :
        (AttributeRule(rules[i]) /\ (Done(i) \/ Failed(i)))
        => /\ Done(i)
           /\ Key(i) \in DOMAIN result
           /\ result[Key(i)] =
                StoredLeaves(rules[i], LAMBDA m : Cleaned(AttrValue(m)))

\* an All rule has stored "" for an element without the attribute next to
\* the value of an element that has it
C3_Witness ==
    \E i \in RuleIndexes :
        /\ AttributeRule(rules[i])
        /\ rules[i].type = "All"
        /\ Done(i)
        /\ \E k, l \in 1..Len(Matches(rules[i])) :
              /\ doc.attr[Matches(rules[i])[k]] = None
              /\ doc.attr[Matches(rules[i])[l]] # None
              /\ AttrValue(Matches(rules[i])[l]) # << >>
        /\ result[Key(i)] = StoredLeaves(rules[i], LAMBDA m : Cleaned(AttrValue(m)))

----------------------------------------------------------------------------
(* C4: per matched element, sub-rules take precedence over the attribute,  *)
(* and the attribute over the text.                                        *)

\* the text leaf of element m as each entry point extracts it
TextLeaf(m) ==
    IF variant = "visitor" THEN Cleaned(ElemText(doc, m)) ELSE Trim(ElemText(doc, m))

WithoutAttribute(r) == [r EXCEPT !.attribute = None]

\* what evaluating rule r alone on the document leaves in an empty map
AloneResults(r) ==
    IF variant = "visitor" THEN
        {VisitElement(doc, Root, r, cleaner, seed).map : seed \in Seeds}
    ELSE IF variant = "folder" THEN
        {Insert(EmptyMap, r.name[1], FoldRule(doc, r, Root))}
    ELSE {Extract(doc, Root, EmptyMap, r).map}

\* C4: a rule with sub-rules stores what it would store without its
\* attribute; a rule with an attribute and no sub-rules stores attribute
\* values; a rule with neither stores text
C4_Precedence ==
    \A i \in RuleIndexes :
        (Matched(rules[i]) /\ Done(i)) =>
            IF rules[i].sub_rules # None THEN
                i = 1 => result \in AloneResults(WithoutAttribute(rules[i]))
            ELSE IF rules[i].attribute # None THEN
                result[Key(i)] =
                    StoredLeaves(rules[i], LAMBDA m : Cleaned(AttrValue(m)))
            ELSE result[Key(i)] = StoredLeaves(rules[i], TextLeaf)

\* a rule with both sub-rules and an attribute was evaluated on an element
\* whose attribute is not empty, and it stored a non-empty object or list
C4_Witness ==
    \E i \in RuleIndexes :
        /\ Matched(rules[i])
        /\ Done(i)
        /\ variant = "folder"
        /\ rules[i].sub_rules # None
        /\ rules[i].attribute # None
        /\ AttrValue(Matches(rules[i])[1]) # << >>
        /\ result[Key(i)] \notin {Object(EmptyMap), Array(<< >>)}
        /\ result \in AloneResults(WithoutAttribute(rules[i]))

----------------------------------------------------------------------------
(* C5: the value of a Many (All) rule is a list with one entry per matched *)
(* element, in document order; entry k is the per-element extraction on    *)
(* the k-th match, and a match whose sub-rules find nothing still          *)
(* contributes an entry.                                                   *)

ManyRule(r) == Matched(r) /\ r.type = "All"

\* the lists an All rule may store: the per-element extractions of its
\* matches in document order
ManyLists(r) ==
    LET ms == Matches(r) IN
    IF variant = "visitor" THEN
        {JsonArray([k \in 1..Len(ms) |-> VisitAllValue(doc, ms[k], r, cleaner, seed).map]) :
            seed \in Seeds}
    ELSE IF variant = "folder" THEN
        {Array([k \in 1..Len(ms) |-> FoldElement(doc, ms[k], r.sub_rules, r.attribute)])}
    ELSE
        {Array([k \in 1..Len(ms) |->
                    ExtractElement(doc, ms[k], r.sub_rules, r.attribute).map])}

\* the locators of the One and All rules below a rule
RECURSIVE SubLocators(_)
SubLocators(subs) ==
    IF subs = << >> THEN {}
    ELSE (IF Head(subs).type = "Text" THEN {} ELSE {Head(subs).selector})
         \cup (IF Head(subs).sub_rules = None THEN {}
               ELSE SubLocators(Head(subs).sub_rules[1]))
         \cup SubLocators(Tail(subs))

\* C5 as stated: the rule always ends with its list stored
C5_OneEntryPerMatch ==
    \A i \in RuleIndexes :
        (ManyRule(rules[i]) /\ (Done(i) \/ Failed(i)))
        => /\ Done(i)
           /\ Key(i) \in DOMAIN result
           /\ result[Key(i)] \in ManyLists(rules[i])

\* C5, amended: so it is in the folder and in the visitor; in scrape_html a
\* One or All sub-entity that finds nothing in a match ends the call with
\* Err(ElementNotFound(..)) of that sub-entity, and otherwise the list is
\* stored
C5_EntryPerMatchOrNotFound ==
    \A i \in RuleIndexes :
        (ManyRule(rules[i]) /\ (Done(i) \/ Failed(i)))
        => IF Done(i)
           THEN /\ Key(i) \in DOMAIN result
                /\ result[Key(i)] \in ManyLists(rules[i])
           ELSE /\ variant = "old"
                /\ status = "err"
                /\ rules[i].sub_rules # None
                /\ \E loc \in SubLocators(rules[i].sub_rules[1]) :
                      error = Some(ElementNotFound(loc))

\* a folder run stored a list of two different objects, one of them for a
\* match in which a sub-rule found nothing
C5_Witness ==
    \E i \in RuleIndexes :
        /\ ManyRule(rules[i])
        /\ variant = "folder"
        /\ Done(i)
        /\ rules[i].sub_rules # None
        /\ Len(Matches(rules[i])) >= 2
        /\ result[Key(i)].a[1] # result[Key(i)].a[2]
        /\ \E k \in 1..Len(Matches(rules[i])) :
              \E n \in DOMAIN result[Key(i)].a[k].o :
                  result[Key(i)].a[k].o[n] = Null

----------------------------------------------------------------------------
(* C6: the value of a TextOnly (Text) rule is the text of all matches in   *)
(* document order joined by one space, every run of whitespace collapsed   *)
(* to one space and the ends trimmed; "" when nothing matches; with or     *)
(* without a cleaner.                                                      *)

\* every run of whitespace collapsed to one space, none at the ends
Collapsed(text) == Join(SplitWhitespace(text), <<SP>>)

\* C6 as stated, the configured cleaner applied to the collapsed text as the
\* evaluator contract has it (with no cleaner or with the crate's
\* DefaultCleaner)
C6_TextCollapsed ==
    \A i \in RuleIndexes :
        (rules[i].type = "Text" /\ Named(rules[i]) /\ ValidSelector(rules[i].selector)
            /\ cleaner # "mark" /\ (Done(i) \/ Failed(i)))
        => /\ Done(i)
           /\ Key(i) \in DOMAIN result
           /\ result[Key(i)] =
                LeafValue(Cleaned(Collapsed(
                    Join([k \in 1..Len(Matches(rules[i])) |->
                             ElemText(doc, Matches(rules[i])[k])],
                         <<SP>>))))

----------------------------------------------------------------------------
(* C7: a Single rule with neither sub-rules nor attribute, and each        *)
(* element of such a Many rule, yields the matched element's descendant    *)
(* text with leading and trailing whitespace removed, with or without a    *)
(* cleaner.                                                                *)

\* C7 as stated, the configured cleaner applied to the trimmed text as the
\* evaluator contract has it (with no cleaner or with the crate's
\* DefaultCleaner)
C7_TextTrimmed ==
    \A i \in RuleIndexes :
        (Matched(rules[i]) /\ rules[i].sub_rules = None /\ rules[i].attribute = None
            /\ cleaner # "mark" /\ (Done(i) \/ Failed(i)))
        => /\ Done(i)
           /\ Key(i) \in DOMAIN result
           /\ result[Key(i)] =
                StoredLeaves(rules[i], LAMBDA m : Cleaned(Trim(ElemText(doc, m))))

----------------------------------------------------------------------------
(* C8: with a cleaner configured, the cleaner is applied exactly once to   *)
(* every extracted leaf string, and never to a list, an object or their    *)
(* serialised form, nor a second time to a leaf nested in one.             *)
(* MarkClean leaves one "!" per application, and no document text holds    *)
(* "!", a quote, a bracket or a brace, so the marks in the result count    *)
(* the applications.                                                       *)

\* the character before position j of v, JSON escape backslashes skipped
RECURSIVE PrevChar(_, _)
PrevChar(v, j) ==
    IF j <= 1 THEN ""
    ELSE IF v[j - 1] = "\\" THEN PrevChar(v, j - 1)
    ELSE v[j - 1]

\* v, a value of the visitor's flat map, shows one cleaning per leaf:
\*  - no mark follows a mark, a "]" or a "}" (nothing cleaned twice, no
\*    serialised list or object cleaned);
\*  - a serialised list ends with its "]", and in it every quote that closes
\*    a value closes a marked leaf or a serialised list or object;
\*  - any other value is one leaf: it ends with its mark and has no other
WellMarked(v) ==
    /\ \A j \in 1..Len(v) : v[j] = "!" => PrevChar(v, j) \notin {"!", "]", "}"}
    /\ IF v # << >> /\ v[1] = "["
       THEN /\ v[Len(v)] = "]"
            /\ \A j \in 1..(Len(v) - 1) :
                  (v[j] = "\"" /\ v[j + 1] \in {",", "]", "}"})
                  => PrevChar(v, j) \in {"!", "]", "}"}
       ELSE /\ v # << >>
            /\ v[Len(v)] = "!"
            /\ Cardinality({j \in 1..Len(v) : v[j] = "!"}) = 1

\* C8: under the marking cleaner every value of the visitor's result is
\* well marked at every point of the call
C8_CleanedOnce ==
    (variant = "visitor" /\ cleaner = "mark")
    => \A k \in DOMAIN result : WellMarked(result[k])

\* the result holds a serialised list of serialised objects with marked
\* leaves in them
C8_Witness ==
    /\ variant = "visitor"
    /\ cleaner = "mark"
    /\ \E k \in DOMAIN result :
          /\ Len(result[k]) > 2
          /\ result[k][1] = "["
          /\ \E j, l \in 1..Len(result[k]) :
                j < l /\ result[k][j] = "{" /\ result[k][l] = "!"

----------------------------------------------------------------------------
(* Vocabulary of the properties about keys: which keys a rule writes into  *)
(* the map of its caller, and which rule a key's value comes from.         *)

\* the names of the named rules of a list
NamesOf(rs) == {rs[j].name[1] : j \in {j \in 1..Len(rs) : Named(rs[j])}}

RECURSIVE VisitorKeys(_, _)
\* the keys visit_element returns for rule r on element el: an unmatched One
\* returns none, a matched One with sub-rules returns those of its sub-rules
\* on the first match, every other rule returns its name
VisitorKeys(r, el) ==
    IF r.type = "One" THEN
        LET ms == Select(doc, el, r.selector) IN
        IF ms = << >> THEN {}
        ELSE IF r.sub_rules # None THEN
            UNION {VisitorKeys(r.sub_rules[1][j], ms[1]) :
                       j \in 1..Len(r.sub_rules[1])}
        ELSE {r.name[1]}
    ELSE {r.name[1]}

\* the keys rule r, evaluated on element el, writes into its caller's map
KeysOf(r, el) ==
    IF variant = "visitor" THEN VisitorKeys(r, el)
    ELSE IF variant = "folder" THEN (IF Named(r) THEN {r.name[1]} ELSE {})
    ELSE {KeyOf(r.name, r.selector)}

\* the value rule r, evaluated alone on element el, writes under key k
ValueOf(r, el, k, seed) ==
    IF variant = "visitor" THEN VisitElement(doc, el, r, cleaner, seed).map[k]
    ELSE IF variant = "folder" THEN FoldRule(doc, r, el)
    ELSE Extract(doc, el, EmptyMap, r).map[k]

\* the last rule of rs that writes key k
LastWriter(rs, el, k) ==
    rs[CHOOSE j \in 1..Len(rs) :
           /\ k \in KeysOf(rs[j], el)
           /\ \A l \in (j + 1)..Len(rs) : k \notin KeysOf(rs[l], el)]

\* the map the rules rs leave when evaluated in order on el: every key any of
\* them writes, with the value of the last rule that writes it
Merged(rs, el, seed) ==
    [k \in UNION {KeysOf(rs[j], el) : j \in 1..Len(rs)} |->
        ValueOf(LastWriter(rs, el, k), el, k, seed)]

----------------------------------------------------------------------------
(* C9: the result of a call has exactly the top-level rule names as keys   *)
(* (one per top-level rule, none for a sub-rule name), each mapped to its  *)
(* own rule's value, also when a top-level Single rule carries sub-rules.  *)

\* C9 as stated: a call that returns a map returns one whose keys are the
\* names of the top-level rules
C9_TopLevelNames ==
    status = "ok" => DOMAIN result = NamesOf(rules)

\* C9, amended: after the first idx - 1 rules the folder's map has the names
\* of the named ones; the visitor's map has the names of the All and Text
\* rules and of the matched One rules without sub-rules, and the keys the
\* sub-rules of a matched One rule write in place of that rule's name;
\* scrape_html's map has name or, for an unnamed entity, locator.  Each key
\* holds what the last rule writing it stores.
C9_KeysPerVariant ==
    status \in {"running", "ok"} =>
        LET done == SubSeq(rules, 1, idx - 1) IN
        \E seed \in Seeds : result = Merged(done, Root, seed)

\* a visitor call has returned from a rule list with a matched One rule with
\* sub-rules
C9_Witness ==
    /\ status = "ok"
    /\ variant = "visitor"
    /\ result # EmptyMap
    /\ \E i \in RuleIndexes :
          /\ rules[i].type = "One"
          /\ Matched(rules[i])
          /\ rules[i].sub_rules # None
          /\ rules[i].name[1] \notin DOMAIN result

----------------------------------------------------------------------------
(* C10: a Single rule with sub-rules whose selector matches yields one     *)
(* Object under the rule's own name, its keys the names of the sub-rules   *)
(* and its values the sub-rules' values on the matched node; each element  *)
(* of a Many rule with sub-rules is such an Object.                        *)

\* a rule with sub-rules whose selector parses and selects something
Nesting(r) == Matched(r) /\ r.sub_rules # None

\* the elements whose sub-rules rule r evaluates
Nodes(r) == IF r.type = "One" THEN <<Matches(r)[1]>> ELSE Matches(r)

\* v is an object, or for the visitor the text of one, with the given keys
IsObjectWithKeys(v, keys) ==
    IF variant = "visitor" THEN v # << >> /\ v[1] = "{"
    ELSE v.t = "obj" /\ DOMAIN v.o = keys

\* C10 as stated, for a Single rule that has at least one sub-rule
C10_ObjectUnderName ==
    \A i \in RuleIndexes :
        (Nesting(rules[i]) /\ rules[i].type = "One" /\ rules[i].sub_rules[1] # << >>
            /\ (Done(i) \/ Failed(i)))
        => /\ Done(i)
           /\ rules[i].name[1] \in DOMAIN result
           /\ IsObjectWithKeys(result[rules[i].name[1]],
                               NamesOf(rules[i].sub_rules[1]))

\* every sub-entity of rule r is found on every node it is evaluated on
SubEntitiesFound(r) ==
    \A k \in 1..Len(Nodes(r)) : \A j \in 1..Len(r.sub_rules[1]) :
        Extract(doc, Nodes(r)[k], EmptyMap, r.sub_rules[1][j]).ok

\* the object of the sub-rule values of r on its k-th node
SubObject(r, k) == Object(Merged(r.sub_rules[1], Nodes(r)[k], "asc"))

\* C10, amended: the folder stores under the rule's name the Object of the
\* sub-rule values on the first match (One) or the list of those Objects
\* (All), a repeated sub-rule name keeping its last value; scrape_html does
\* the same when every One and All sub-entity is found and else returns
\* Err(ElementNotFound(locator)); the visitor merges the sub-rules' entries
\* of a One rule into the enclosing map, leaving no key for the rule itself,
\* and stores for an All rule the JSON text of the list of the JSON texts of
\* the per-element maps.
C10_SubRuleValues ==
    \A i \in RuleIndexes :
        Nesting(rules[i]) =>
            LET r == rules[i]
                subs == r.sub_rules[1]
            IN
            /\ variant = "folder" =>
                  /\ ~Failed(i)
                  /\ Done(i) =>
                        result[r.name[1]] =
                            IF r.type = "One" THEN SubObject(r, 1)
                            ELSE Array([k \in 1..Len(Nodes(r)) |-> SubObject(r, k)])
            /\ variant = "old" =>
                  IF SubEntitiesFound(r)
                  THEN /\ ~Failed(i)
                       /\ Done(i) =>
                             result[r.name[1]] =
                                 IF r.type = "One" THEN SubObject(r, 1)
                                 ELSE Array([k \in 1..Len(Nodes(r)) |-> SubObject(r, k)])
                  ELSE /\ ~Done(i)
                       /\ Failed(i) =>
                             /\ status = "err"
                             /\ error \in {Some(ElementNotFound(loc)) :
                                               loc \in SubLocators(subs)}
            /\ variant = "visitor" =>
                  /\ ~Failed(i)
                  /\ Done(i) =>
                        \E seed \in Seeds :
                            IF r.type = "One"
                            THEN LET m == Merged(subs, Nodes(r)[1], seed) IN
                                 /\ \A k \in DOMAIN m :
                                       k \in DOMAIN result /\ result[k] = m[k]
                                 /\ r.name[1] \in DOMAIN result =>
                                       \/ r.name[1] \in DOMAIN m
                                       \/ \E j \in 1..(i - 1) :
                                             r.name[1] \in KeysOf(rules[j], Root)
                            ELSE result[r.name[1]] =
                                     JsonArray([k \in 1..Len(Nodes(r)) |->
                                         JsonObject(Merged(subs, Nodes(r)[k], seed),
                                                    seed)])

\* a folder call has stored the Object of two sub-rule values under the name
\* of a matched One rule
C10_Witness ==
    \E i \in RuleIndexes :
        /\ Nesting(rules[i])
        /\ rules[i].type = "One"
        /\ variant = "folder"
        /\ Done(i)
        /\ result[rules[i].name[1]].t = "obj"
        /\ Cardinality(DOMAIN result[rules[i].name[1]].o) = 2

----------------------------------------------------------------------------
(* C11: sequential evaluation is deterministic: two evaluations of the     *)
(* same (document, rules) pair give identical results, the serialised text *)
(* of every nested list and object included.                               *)

\* C11 as stated: the map a second call returns is the map the first call
\* returned
C11_SameResultTwice ==
    (status = "ok" /\ first # None) => result = first[1]

----------------------------------------------------------------------------
(* C12: for every document and every rule set whose names are unique, the  *)
(* parallel scrape and the sequential scrape produce the same result (same *)
(* keys, same value per key) under every scheduling of the workers.        *)

\* no two rules of the list have the same name
UniqueNames(rs) ==
    \A i, j \in 1..Len(rs) : i # j => rs[i].name # rs[j].name

\* C12 as stated: the map the parallel scrape returns is the map the
\* sequential scrape returned
C12_SameAsSequential ==
    (variant = "visitor_mt" /\ status = "ok" /\ UniqueNames(rules))
    => result = first[1]

----------------------------------------------------------------------------
(* C13: in parallel evaluation with unique top-level rule names the final  *)
(* set of (name, value) pairs in the shared result container is the same   *)
(* for every interleaving of the workers.                                  *)

\* the map the tasks' entries give when written in the order of the rules,
\* which is what the interleaving that runs the tasks one after the other
\* in that order leaves
WrittenInOrder == CollectFrom(parts, 1, EmptyMap)

DisjointWrites ==
    \A i, j \in DOMAIN parts :
        i # j => DOMAIN parts[i].map \cap DOMAIN parts[j].map = {}

----------------------------------------------------------------------------
(* C14: a rule whose selector string is invalid produces, when evaluated,  *)
(* a typed selector error returned to the caller, distinct from the        *)
(* outcome of a valid selector that matches nothing; it is never reported  *)
(* as "no match" and never aborts the process.                             *)

\* C14 as stated: the evaluation of such a rule ends the call with
\* Err(InvalidSelector(selector))
C14_TypedSelectorError ==
    \A i \in RuleIndexes :
        (~ValidSelector(rules[i].selector) /\ (Done(i) \/ Failed(i)))
        => /\ Failed(i)
           /\ status = "err"
           /\ error = Some(InvalidSelector(rules[i].selector))

----------------------------------------------------------------------------
(* C15: whenever an entry point fails with a configuration or selector     *)
(* error, the caller receives only the typed error: no result map, the     *)
(* values of earlier rules discarded, later rules not evaluated.           *)

\* C15 as stated: a call that has failed at rule idx has returned a typed
\* error and no map, and that error is the one of the first rule that fails
C15_OnlyTypedError ==
    status \in {"err", "panic"} =>
        /\ status = "err"
        /\ error # None
        /\ result = EmptyMap
        /\ \A j \in 1..(idx - 1) : ValidSelector(rules[j].selector)

----------------------------------------------------------------------------
(* C16: configuration round trip.                                          *)

\* the rules in force are those the configuration text was written from
SameRuleTree == rules = builtin

\* C16: when a ScraperConfig is serialised to its JSON text and that text
\* is decoded by from_config, the decoded rule tree is the original one
\* (variants, selectors, names, nesting, attributes), and the scrape with
\* the encoded configuration returns what the scrape with the original
\* rules returned.
C16_ConfigRoundTrip ==
    (config = Some(ConfigToString(builtin)) /\ status \in {"ok", "err", "panic"})
    => (status # "err" /\ SameRuleTree /\ (status = "ok" => result = first[1]))

----------------------------------------------------------------------------
(* C17: what DefaultCleaner::clean returns.                                *)

\* no line feed from position j to position k
InLine(t, j, k) == \A m \in j..k : t[m] # NL

\* position i lies between the first and the last non-whitespace character
\* of its line, both included: what trimming the line keeps
Inner(t, i) ==
    \E j \in 1..i, k \in i..Len(t) : ~IsWs(t[j]) /\ ~IsWs(t[k]) /\ InLine(t, j, k)

\* position i opens the kept part of a line that is not the first kept one
OpensLaterLine(t, i) ==
    /\ Inner(t, i)
    /\ ~\E j \in 1..(i - 1) : Inner(t, j) /\ InLine(t, j, i)
    /\ \E j \in 1..(i - 1) : Inner(t, j)

RECURSIVE OneLine(_, _)
\* the kept characters from position i on, one space before each kept part
\* but the first
OneLine(t, i) ==
    IF i > Len(t) THEN << >>
    ELSE (IF OpensLaterLine(t, i) THEN <<SP, t[i]>>
          ELSE IF Inner(t, i) THEN <<t[i]>>
          ELSE << >>) \o OneLine(t, i + 1)

Line1Line2 == <<"l", "i", "n", "e", "1", SP, "l", "i", "n", "e", "2">>

\* C17: DefaultCleaner.clean returns the lines of its text, each trimmed,
\* the lines that are empty after trimming left out, joined by exactly one
\* space: two padded lines 'line1', 'line2' give "line1 line2", and a text
\* of whitespace only gives the empty string.
C17_DefaultCleaner ==
    (variant = "cleaner" /\ output # None) =>
        /\ output[1] = OneLine(input, 1)
        /\ input = PaddedLines => output[1] = Line1Line2
        /\ (\A i \in 1..Len(input) : IsWs(input[i])) => output[1] = << >>

\* the two padded lines have been cleaned
C17_Witness == variant = "cleaner" /\ input = PaddedLines /\ output = Some(Line1Line2)

----------------------------------------------------------------------------
(* C18: which cleaner a scraper applies.                                   *)

\* a rule that extracts leaf strings only
IsLeafRule(r) == r.sub_rules = None /\ ValidSelector(r.selector)

\* evaluated from element el, rule r stores a value: a One rule when it
\* selects an element, an All or Text rule always
Produces(r, el) == r.type # "One" \/ Select(doc, el, r.selector) # << >>

\* the leaf string a One or All rule extracts from element m
Extracted(r, m) ==
    IF r.attribute # None THEN AttrOr(doc, m, r.attribute[1]) ELSE ElemText(doc, m)

\* what leaf rule r, evaluated from element el, stores when every extracted
\* leaf string s is kept as through(s)
StoredThrough(r, el, through(_)) ==
    LET ms == Select(doc, el, r.selector) IN
    IF r.type = "One" THEN through(Extracted(r, ms[1]))
    ELSE IF r.type = "All"
         THEN JsonArray([k \in 1..Len(ms) |-> through(Extracted(r, ms[k]))])
    ELSE through(Join([k \in 1..Len(ms) |-> ElemText(doc, ms[k])], <<SP>>))

\* sub-rule j of the list subs is the last to store a value under its name
LastUnderName(subs, j, el) ==
    /\ Produces(subs[j], el)
    /\ \A k \in (j + 1)..Len(subs) :
          subs[k].name = subs[j].name => ~Produces(subs[k], el)

\* C18: a scraper built without a cleaner stores every extracted leaf string
\* exactly as extracted; a scraper built with_cleaner stores every leaf
\* string as that cleaner returns it, in the first scrape and in a later
\* one. Checked on the leaves of top-level rules and of the sub-rules of a
\* One rule.
C18_ConfiguredCleaner ==
    variant = "visitor" =>
    \A i \in RuleIndexes : Done(i) =>
        LET r == rules[i] IN
        /\ (IsLeafRule(r) /\ Produces(r, Root)) =>
              /\ Key(i) \in DOMAIN result
              /\ result[Key(i)] = StoredThrough(r, Root, Cleaned)
        /\ (r.type = "One" /\ r.sub_rules # None /\ Matches(r) # << >>) =>
              \A j \in 1..Len(r.sub_rules[1]) :
                  LET sub == r.sub_rules[1][j] IN
                  (IsLeafRule(sub) /\ LastUnderName(r.sub_rules[1], j, Matches(r)[1])) =>
                      /\ sub.name[1] \in DOMAIN result
                      /\ result[sub.name[1]] = StoredThrough(sub, Matches(r)[1], Cleaned)

\* a scraper built with DefaultCleaner has returned, from its second scrape,
\* a text that the cleaner changed
C18_Witness ==
    /\ variant = "visitor" /\ cleaner = "default" /\ first # None /\ status = "ok"
    /\ Len(rules) = 1 /\ rules[1].type = "One" /\ IsLeafRule(rules[1])
    /\ rules[1].attribute = None /\ Matches(rules[1]) # << >>
    /\ result[Key(1)] = DefaultClean(ElemText(doc, Matches(rules[1])[1]))
    /\ result[Key(1)] # ElemText(doc, Matches(rules[1])[1])

----------------------------------------------------------------------------
(* C19: scrape_html, a One or All step that finds no element.              *)

\* the elements step s selects in the fragment of element el (in the whole
\* document when el is the root)
Found(el, s) == SelectFragment(doc, el, s.selector)

\* step s is a One or All step with a valid locator that matches nothing
NoMatchIn(el, s) ==
    s.type \in {"One", "All"} /\ ValidSelector(s.selector) /\ Found(el, s) = << >>

\* the positions in the list of sub-entities of step s
SubIndexes(s) == IF s.sub_rules = None THEN {} ELSE 1..Len(s.sub_rules[1])

RECURSIVE Succeeds(_, _)
\* step s, evaluated on the fragment of el, returns Ok: its selector is
\* valid, a One or All step finds an element, and its sub-entities succeed
\* on the first element (One) or on every element (All)
Succeeds(el, s) ==
    /\ ValidSelector(s.selector)
    /\ s.type # "Text" =>
          /\ Found(el, s) # << >>
          /\ s.sub_rules # None =>
                \A k \in 1..(IF s.type = "One" THEN 1 ELSE Len(Found(el, s))) :
                    \A j \in 1..Len(s.sub_rules[1]) :
                        Succeeds(Found(el, s)[k], s.sub_rules[1][j])

\* the evaluation of step s reaches its sub-entity j on its k-th element:
\* every sub-entity succeeded on the elements before it, and the
\* sub-entities before j on this one
Reaches(s, k, j) ==
    /\ s.type \in {"One", "All"} /\ ValidSelector(s.selector) /\ s.sub_rules # None
    /\ k \in 1..(IF s.type = "One" THEN 1 ELSE Len(Found(Root, s)))
    /\ k <= Len(Found(Root, s))
    /\ j \in 1..Len(s.sub_rules[1])
    /\ \A k2 \in 1..(k - 1) : \A j2 \in 1..Len(s.sub_rules[1]) :
          Succeeds(Found(Root, s)[k2], s.sub_rules[1][j2])
    /\ \A j2 \in 1..(j - 1) : Succeeds(Found(Root, s)[k], s.sub_rules[1][j2])

\* C19: when scrape_html evaluates a One or All step whose locator is a
\* valid selector that matches no element, the call returns
\* Err(ElementNotFound(locator)) with the locator of that step, whether the
\* step is one of the call's steps or a sub-entity of one of them.
C19_ElementNotFound ==
    variant = "old" =>
    \A i \in RuleIndexes : (Done(i) \/ Failed(i)) =>
        /\ NoMatchIn(Root, rules[i]) =>
              /\ Failed(i)
              /\ status = "err"
              /\ error = Some(ElementNotFound(rules[i].selector))
        /\ \A k \in 1..doc.n : \A j \in SubIndexes(rules[i]) :
              (/\ Reaches(rules[i], k, j)
               /\ NoMatchIn(Found(Root, rules[i])[k], rules[i].sub_rules[1][j]))
              => /\ Failed(i)
                 /\ status = "err"
                 /\ error = Some(ElementNotFound(rules[i].sub_rules[1][j].selector))

\* scrape_html has returned ElementNotFound with the locator of a sub-entity
\* of a step that did find its element
C19_Witness ==
    /\ variant = "old" /\ status = "err" /\ Len(rules) = 1
    /\ rules[1].sub_rules # None
    /\ Found(Root, rules[1]) # << >>
    /\ \E j \in 1..Len(rules[1].sub_rules[1]) :
          /\ rules[1].sub_rules[1][j].selector # rules[1].selector
          /\ error = Some(ElementNotFound(rules[1].sub_rules[1][j].selector))

----------------------------------------------------------------------------
(* C20: scrape_html, the key a step stores its value under.                *)

\* the name of a named step, the locator of an unnamed one
StepKey(s) == IF s.name = None THEN s.selector ELSE s.name[1]

\* scrape_html has evaluated the step at idx and goes on
StepSucceeded == variant = "old" /\ status = "running" /\ idx' = idx + 1

\* the map after the step is the map before it with the value at key added
\* or replaced and nothing else touched
OneKeyWritten(before, after, key) ==
    /\ DOMAIN after = DOMAIN before \cup {key}
    /\ \A k \in DOMAIN before \ {key} : after[k] = before[k]

\* the sub-entities of the step just evaluated left, in the map of each
\* element, one key each
SubKeysWritten ==
    \A i \in RuleIndexes :
        (variant = "old" /\ Done(i) /\ rules[i].type # "Text" /\ rules[i].sub_rules # None)
        => LET keys == {StepKey(rules[i].sub_rules[1][j]) : j \in SubIndexes(rules[i])}
               v == result[StepKey(rules[i])]
           IN IF rules[i].type = "One" THEN DOMAIN v.o = keys
              ELSE \A k \in 1..Len(v.a) : DOMAIN v.a[k].o = keys

\* C20: in scrape_html every step that is evaluated successfully stores its
\* value under its name, or under its locator when it has no name, and
\* adds or overwrites that one key of its enclosing map and no other.
C20_KeyOfStep ==
    /\ [][StepSucceeded => OneKeyWritten(result, result', StepKey(rules[idx]))]_vars
    /\ []SubKeysWritten

\* scrape_html has returned the value of an unnamed step under its locator
\* next to the value of a named step under its name
C20_Witness ==
    /\ variant = "old" /\ status = "ok" /\ Len(rules) = 2
    /\ rules[1].name = None /\ rules[2].name # None
    /\ DOMAIN result = {rules[1].selector, rules[2].name[1]}

----------------------------------------------------------------------------
(* C21: how from_config selects the format.                                *)

\* from_config has returned
ConfigDecided == config # None /\ status # "config"

\* from_config returned Err(ConfigError) of the given kind
ErrorIs(kind) == status = "err" /\ error = Some(ConfigError(kind))

\* from_config returned some ConfigError
SomeConfigError ==
    /\ status = "err"
    /\ \E kind \in {"Io", "JsonParse", "TomlParse", "UnsupportedFormat", "TomlNotEnabled"} :
          error = Some(ConfigError(kind))

\* from_config returned Ok with the rules rs
RulesAre(rs) == status # "err" /\ rules = rs

\* the configuration is the text c, and no file has that name
Inline(c) == config = Some(c) /\ c \notin DOMAIN files

\* the configuration is the path c of a file or directory that exists
Existing(c) == config = Some(c) /\ c \in DOMAIN files

\* what the claim says of inline texts and of the .json and .toml files
SelectedAsClaimed ==
    /\ Existing(ConfigFile) => RulesAre(builtin)
    /\ Existing(BadFile) => ErrorIs("JsonParse")
    /\ Existing(TomlFile) =>
          IF toml THEN RulesAre(OtherRules) ELSE ErrorIs("TomlNotEnabled")
    /\ Existing(TextFile) => ErrorIs("UnsupportedFormat")
    /\ Inline(ConfigToString(builtin)) => RulesAre(builtin)
    /\ Inline(ConfigToString(OtherRules)) => RulesAre(OtherRules)
    /\ Inline(OtherToml) => IF toml THEN RulesAre(OtherRules) ELSE SomeConfigError
    /\ Inline(Malformed) => SomeConfigError
    /\ \A c \in Paths : Inline(c) => SomeConfigError

\* C21 as stated: an existing path is decoded by its suffix, any suffix but
\* .json and .toml giving UnsupportedFormat; any other string is decoded as
\* JSON and, failing that, as TOML; every failure is a ConfigError
C21_FormatBySuffix ==
    ConfigDecided =>
        /\ SelectedAsClaimed
        /\ Existing(Directory) => ErrorIs("UnsupportedFormat")

\* C21, amended: an existing path is read first, and a path that cannot be
\* read as text returns Io whatever its suffix; a file that was read is
\* decoded by its suffix as stated; an inline text that is neither JSON nor,
\* with the feature, TOML returns TomlParse with the feature and
\* UnsupportedFormat without it
C21_FormatAfterRead ==
    ConfigDecided =>
        /\ SelectedAsClaimed
        /\ Existing(Directory) => ErrorIs("Io")
        /\ (\E c \in Paths \cup {Malformed} : Inline(c)) \/ (Inline(OtherToml) /\ ~toml)
           => IF toml THEN ErrorIs("TomlParse") ELSE ErrorIs("UnsupportedFormat")

\* a build with the feature has scraped with the rules of the .toml file
C21_Witness ==
    /\ Existing(TomlFile) /\ toml /\ status = "ok" /\ rules = OtherRules
    /\ rules # builtin

----------------------------------------------------------------------------
(* C22: where HtmlScraper::scrape takes its rules from.                    *)

\* the configuration decodes to the built-in rules
BuiltinConfigured ==
    Inline(ConfigToString(builtin)) \/ Existing(ConfigFile)

\* the configuration decodes to the other rules
OtherConfigured ==
    Inline(ConfigToString(OtherRules)) \/ (toml /\ (Inline(OtherToml) \/ Existing(TomlFile)))

\* the rules in force come from the configuration when there is one and
\* from T::get_config() otherwise, and a scrape whose configuration does
\* not decode has evaluated nothing
RulesFromSource ==
    /\ config = None => rules = builtin
    /\ (ConfigDecided /\ OtherConfigured) => RulesAre(OtherRules)
    /\ (ConfigDecided /\ BuiltinConfigured) => RulesAre(builtin)
    /\ (config # None /\ status \in {"config", "err"}) => (idx = 1 /\ result = EmptyMap)

\* C22: scrape decides the rule source before it evaluates anything: with
\* a configuration the rules are the decoded ones and a decoding failure
\* returns Err with nothing evaluated, without one they are T::get_config();
\* and a scraper configured with rules equal to the built-in ones returns
\* what the scraper without configuration returns on the same document.
C22_RuleSource ==
    /\ RulesFromSource
    /\ (BuiltinConfigured /\ status = "ok") => result = first[1]

----------------------------------------------------------------------------
(* C23: what the sub-rules of a rule can see.                              *)

\* document d with every element outside the set keep made invisible: no
\* class a selector matches, no attribute, no text; own tells for which
\* elements of keep the class and attribute stay visible
Hiding(d, keep, own) ==
    [d EXCEPT
        !.cls = [i \in 1..d.n |-> IF i \in own THEN d.cls[i] ELSE "z"],
        !.attr = [i \in 1..d.n |-> IF i \in own THEN d.attr[i] ELSE None],
        !.text = [i \in 1..d.n |-> IF i \in keep THEN d.text[i] ELSE << >>]]

\* the document reduced to the matched node m and its descendants
OnlyNode(d, m) ==
    Hiding(d, Descendants(d, m) \cup {m}, Descendants(d, m) \cup {m})

\* the document reduced to the descendants of m: the elements below it and
\* its own text, but neither its class nor its attributes
OnlyBelow(d, m) ==
    Hiding(d, Descendants(d, m) \cup {m}, Descendants(d, m))

\* what the sub-rules subs yield on the matched node m of document d
SubValues(d, m, subs, seed) ==
    IF variant = "visitor" THEN VisitSubRules(d, m, subs, cleaner, seed, EmptyMap)
    ELSE IF variant = "folder" THEN FoldSubRules(d, m, subs, EmptyMap)
    ELSE ExtractSubEntities(d, m, subs, EmptyMap)

\* on every node whose sub-rules rule i evaluated, the sub-rules yield what
\* they yield on the document reduced by reduce to that node
Confined(i, reduce(_, _)) ==
    \A k \in 1..Len(Nodes(rules[i])) : \A seed \in Seeds :
        LET m == Nodes(rules[i])[k] IN
        SubValues(doc, m, rules[i].sub_rules[1], seed)
            = SubValues(reduce(doc, m), m, rules[i].sub_rules[1], seed)

\* the value stored for rule i is made of what its sub-rules yield on the
\* documents reduced to its matched nodes
StoredFromNodes(i) ==
    LET r == rules[i]
        sv(k, seed) == SubValues(OnlyNode(doc, Nodes(r)[k]), Nodes(r)[k],
                                 r.sub_rules[1], seed)
    IN
    IF variant = "folder" THEN
        result[Key(i)] = IF r.type = "One" THEN sv(1, "asc")
                         ELSE Array([k \in 1..Len(Nodes(r)) |-> sv(k, "asc")])
    ELSE IF variant = "old" THEN
        result[Key(i)] = IF r.type = "One" THEN Object(sv(1, "asc").map)
                         ELSE Array([k \in 1..Len(Nodes(r)) |-> Object(sv(k, "asc").map)])
    ELSE \E seed \in Seeds :
            IF r.type = "One"
            THEN \A key \in DOMAIN sv(1, seed).map :
                    key \in DOMAIN result /\ result[key] = sv(1, seed).map[key]
            ELSE result[Key(i)] =
                    JsonArray([k \in 1..Len(Nodes(r)) |->
                                  JsonObject(sv(k, seed).map, seed)])

\* C23 as stated: the values of the sub-rules of a matched node are built
\* from the descendants of that node alone
C23_DescendantsOnly ==
    \A i \in RuleIndexes :
        (Nesting(rules[i]) /\ Done(i)) => Confined(i, OnlyBelow)

\* C23, amended: the values of the sub-rules of a matched node are built
\* from that node's subtree and from nothing elsewhere in the document: in
\* the visitor and the folder from its descendants alone, in scrape_html
\* from the node itself as well, which a sub-entity's selector can match
C23_SubtreeOnly ==
    \A i \in RuleIndexes :
        (Nesting(rules[i]) /\ Done(i)) =>
            /\ Confined(i, OnlyNode)
            /\ variant # "old" => Confined(i, OnlyBelow)
            /\ StoredFromNodes(i)

\* the folder has stored, for two elements selected by one All rule, what
\* the same Text sub-rule found below each: the text of the q element below
\* one of them, and nothing for the other, which has no q element below it
C23_Witness ==
    /\ variant = "folder" /\ status = "ok" /\ Len(rules) = 1
    /\ rules[1].type = "All" /\ rules[1].sub_rules = Some(<<TextRule("q", Some("y"))>>)
    /\ Len(Matches(rules[1])) = 2
    /\ result["x"].a[1].o["y"] # result["x"].a[2].o["y"]
    /\ \E k \in 1..2 : result["x"].a[k].o["y"].s # << >>

----------------------------------------------------------------------------
(* C24: two rules of one list with the same name, evaluated in sequence.   *)

\* the rules evaluated so far
Evaluated == 1..(idx - 1)

\* rules i and j, both evaluated, are leaf rules of the same name
SameName(i, j) ==
    /\ i \in Evaluated /\ j \in Evaluated /\ i < j
    /\ Named(rules[i]) /\ rules[i].name = rules[j].name
    /\ rules[i].sub_rules = None /\ rules[j].sub_rules = None

\* evaluated at top level, leaf rule r stores a value under its name: in
\* the visitor a One rule that selects nothing stores none
Stores(r) == variant = "visitor" => (r.type # "One" \/ Matches(r) # << >>)

\* rule l is the last evaluated rule of its name that stores a value
LastStoring(l) ==
    /\ l \in Evaluated /\ Stores(rules[l])
    /\ \A m \in Evaluated :
          (m > l /\ rules[m].name = rules[l].name) => ~Stores(rules[m])

\* the result holds, under the name of rule l, what rule l stores
HoldsValueOf(l) ==
    /\ rules[l].name[1] \in DOMAIN result
    /\ result[rules[l].name[1]] = ValueOf(rules[l], Root, rules[l].name[1], "asc")

\* C24 as stated: the entry of a name that two evaluated rules share holds
\* the value of the later of them
C24_LaterRuleWins ==
    status \in {"running", "ok"} =>
    \A i, j \in RuleIndexes :
        (SameName(i, j) /\ \A m \in Evaluated : m > j => rules[m].name # rules[j].name)
        => (Stores(rules[j]) /\ HoldsValueOf(j))

\* C24, amended: when rules of one list share a name, the result has one
\* entry for the name, holding the value of the last of them that stores
\* one, and the entries of the other names hold what their own last
\* storing rule stores; the call goes on without an error. In the folder
\* and scrape_html every evaluated rule stores a value; in the visitor a
\* One rule that selects nothing stores none and leaves the earlier entry.
C24_LastStoringRuleWins ==
    (status \in {"running", "ok"} /\ \E i, j \in RuleIndexes : SameName(i, j)) =>
        /\ \A l \in Evaluated : (Named(rules[l]) /\ LastStoring(l)) => HoldsValueOf(l)
        /\ \A n \in DOMAIN result :
              \E l \in Evaluated : StepKey(rules[l]) = n /\ Stores(rules[l])

\* a call has returned, under a name that a One rule and a Text rule after
\* it share, the Text rule's value, which differs from the One rule's
C24_Witness ==
    /\ status = "ok" /\ Len(rules) = 2 /\ SameName(1, 2)
    /\ rules[1].type = "One" /\ rules[2].type = "Text"
    /\ HoldsValueOf(2)
    /\ Matches(rules[1]) # << >>
    /\ result[rules[1].name[1]] # ValueOf(rules[1], Root, rules[1].name[1], "asc")

----------------------------------------------------------------------------
(* C25: two top-level rules of a parallel evaluation with the same name    *)
(* and different values.                                                   *)

\* the tasks whose map has key n
WritersOf(n) == {m \in DOMAIN parts : n \in DOMAIN parts[m].map}

\* tasks i and j have both computed a value for key n, and the values differ
Collide(i, j, n) ==
    /\ i \in WritersOf(n) /\ j \in WritersOf(n) /\ i < j
    /\ parts[i].map[n] # parts[j].map[n]

\* the keys some two tasks collide on
Collisions == {n \in DOMAIN result : \E i, j \in DOMAIN parts : Collide(i, j, n)}

\* a write into the shared map stores the writing task's value under the
\* key, whatever was there
WriterOverwrites ==
    (variant = "visitor_mt" /\ result' # result) =>
        \E i \in todo \cap DOMAIN parts : \E k \in parts[i].left :
            result' = Insert(result, k, parts[i].map[k])

\* the last task of HtmlParser::parse to finish is the one whose value the
\* collected map holds
LastFinisherWins ==
    (variant = "parser_mt" /\ status' = "running" /\ todo # {} /\ todo' = {}) =>
        \A i \in todo :
            CollectFrom(parts', 1, EmptyMap)[rules[i].name] = parts'[i].map[rules[i].name]

\* C25 as stated: in both parallel entry points the value stored for a
\* name is the value of the worker that comes last in time, and the name
\* has an entry
C25_LastWorkerWins ==
    /\ [][WriterOverwrites /\ LastFinisherWins]_vars
    /\ [](status = "ok" =>
            \A i, j \in DOMAIN parts : \A n \in DOMAIN parts[i].map :
                Collide(i, j, n) => n \in DOMAIN result)

\* the last rule of the list with the name of rule i
LastNamed(i) ==
    CHOOSE l \in 1..Len(rules) :
        /\ rules[l].name = rules[i].name
        /\ \A m \in 1..Len(rules) : rules[m].name = rules[i].name => m <= l

\* C25, amended: in the parallel scrape every write replaces the entry of
\* its key by the writing worker's value, so a name two workers computed
\* different values for has one entry in the returned map, holding the
\* value of one of those workers (the one that wrote last); in
\* HtmlParser::parse the pairs are collected in the order of the rules, so
\* the entry of a shared name holds the value of the rule that comes last
\* in the list, whatever the interleaving
C25_WriteOrderOrListOrder ==
    /\ [][WriterOverwrites]_vars
    /\ []((variant = "visitor_mt" /\ status = "ok") =>
            \A i, j \in DOMAIN parts : \A n \in DOMAIN parts[i].map :
                Collide(i, j, n) =>
                    /\ n \in DOMAIN result
                    /\ \E m \in WritersOf(n) : result[n] = parts[m].map[n])
    /\ []((variant = "parser_mt" /\ status = "ok") =>
            \A i \in 1..Len(rules) :
                /\ rules[i].name \in DOMAIN result
                /\ result[rules[i].name] = parts[LastNamed(i)].map[rules[i].name])

\* a parallel scrape has returned, under a key two workers computed
\* different values for, the value of the earlier rule's worker, where the
\* sequential scrape returned the later rule's
C25_Witness ==
    /\ variant = "visitor_mt" /\ status = "ok" /\ Len(rules) = 2
    /\ \E n \in Collisions :
          /\ Collide(1, 2, n)
          /\ result[n] = parts[1].map[n]
          /\ first[1][n] = parts[2].map[n]

\* a parallel scrape has returned, under such a key, the value of the
\* later rule's worker
C25_LaterReached ==
    /\ variant = "visitor_mt" /\ status = "ok" /\ Len(rules) = 2
    /\ \E n \in Collisions :
          /\ Collide(1, 2, n)
          /\ result[n] = parts[2].map[n]

----------------------------------------------------------------------------
(* C26: the shared container of the parallel scrape reaches the result     *)
(* conversion after every task has finished, with no write lost.           *)

Parallel == variant \in {"visitor_mt", "parser_mt"}

\* the key a top-level rule's name stands for
TopKey(i) == IF variant = "parser_mt" THEN rules[i].name ELSE rules[i].name[1]

\* every task has evaluated its rule and written all it had to write
AllTasksFinished ==
    /\ todo = {}
    /\ DOMAIN parts = 1..Len(rules)
    /\ \A i \in DOMAIN parts : parts[i].left = {}

----------------------------------------------------------------------------
(* C27: what a task of the parallel scrape writes and reads.               *)

\* the maps the evaluator computes for rule i from the root alone
OwnMaps(i) ==
    {VisitElement(doc, Root, rules[i], cleaner, seed).map : seed \in Seeds}

\* the tasks that have written key k
Written(k) == {i \in DOMAIN parts : k \in DOMAIN parts[i].map \ parts[i].left}

\* a step that changes the shared map is the write, by a task under its
\* own rule's name, of the value it computed
WritesOwnName ==
    (variant = "visitor_mt" /\ result' # result) =>
        \E i \in todo \cap DOMAIN parts :
            /\ rules[i].name[1] \in parts[i].left
            /\ result' = Insert(result, rules[i].name[1], parts[i].map[rules[i].name[1]])

WritesOwnEntry ==
    (variant = "visitor_mt" /\ result' # result) =>
        \E i \in todo \cap DOMAIN parts : \E k \in parts[i].left :
            /\ result' = Insert(result, k, parts[i].map[k])
            /\ parts' = [parts EXCEPT ![i].left = @ \ {k}]

----------------------------------------------------------------------------
(* C28: every evaluation runs to completion, each top-level rule being     *)
(* evaluated once, and the parallel scrape eventually returns.             *)

\* C28 as stated: the call, sequential or parallel, eventually returns
C28_EventuallyReturns == <>(status = "ok")

\* every selector of the rule and of its sub-rules is valid
RECURSIVE AllSelectorsValid(_)
AllSelectorsValid(r) ==
    /\ ValidSelector(r.selector)
    /\ r.sub_rules # None =>
          \A k \in 1..Len(r.sub_rules[1]) : AllSelectorsValid(r.sub_rules[1][k])

\* what holds of the code: the call ends, by a return or by a panic, and it
\* returns when every selector is valid
C28_ReturnsOrPanics ==
    /\ <>(status \in {"ok", "panic"})
    /\ (\A i \in 1..Len(rules) : AllSelectorsValid(rules[i])) => <>(status = "ok")

\* a sequential step evaluates the next rule of the list, and a parallel
\* step is the evaluation of a rule not evaluated yet, a write or the return
C28_EachRuleOnce ==
    [][/\ idx' \in {idx, idx + 1}
       /\ todo' \subseteq todo
       /\ \A i \in DOMAIN parts : i \in DOMAIN parts' /\ parts'[i].map = parts[i].map
       /\ status = "ok" => UNCHANGED vars]_vars

----------------------------------------------------------------------------
(* C29: DefaultCleaner::clean is idempotent and normalising.               *)

\* a line of whitespace only
Blank(l) == \A i \in 1..Len(l) : IsWs(l[i])

\* C29: cleaning a cleaned text gives the cleaned text; a cleaned text has
\* no line feed and neither starts nor ends with whitespace, and it is
\* empty exactly when every line of the input is blank
C29_IdempotentNormalising ==
    (variant = "cleaner" /\ output # None) =>
        LET out == output[1] IN
        /\ first # None => output = first
        /\ \A i \in 1..Len(out) : out[i] # NL
        /\ out # << >> => (~IsWs(out[1]) /\ ~IsWs(out[Len(out)]))
        /\ out = << >> <=> \A k \in 1..Len(Lines(input)) : Blank(Lines(input)[k])

\* a text of two lines with whitespace at the start and at the end of one of
\* them has been cleaned, and the cleaned text has been cleaned again
C29_Witness ==
    /\ variant = "cleaner" /\ first # None /\ output = first
    /\ Len(Lines(input)) = 2
    /\ \E k \in 1..2 : LET l == Lines(input)[k] IN
          Len(l) >= 3 /\ IsWs(l[1]) /\ IsWs(l[Len(l)]) /\ ~Blank(l)
    /\ output[1] # << >>
    /\ output[1] # input

================================================================================
